---- MODULE Spec2Model ----
(***************************************************************************)
(* A model of go-quote: the Quote record, the provider adapters that fill  *)
(* it from upstream responses, the CSV / JSON / Highstock serializers and  *)
(* parsers, the batch and market-list functions, the anonymous FTP fetch   *)
(* and the command line program.                                          *)
(*                                                                         *)
(* Conventions                                                             *)
(*   - a Go string is a sequence of tokens; a token is one character or an  *)
(*     atom, the text of one formatted number or date;                     *)
(*   - a time.Time is an integer number of seconds since the Unix epoch,   *)
(*     ZeroTime stands for the zero value time.Time{};                     *)
(*   - a float64 is an integer number of thousandths (1500 is 1.5), or one *)
(*     of the two special values NaN and PosInf;                           *)
(*   - nil and empty slices are both the empty sequence;                   *)
(*   - a panic is the outcome "panic": nothing is returned to the caller.  *)
(***************************************************************************)
EXTENDS Integers, Sequences, FiniteSets, TLC

VARIABLES
    \* ---- provider adapters --------------------------------------------
    fpc,        \* position of the fetch in progress
    adapter,    \* name of the adapter that was called
    symbol,     \* symbol argument of the call
    startBar,   \* NewQuoteFromCoinbase: start of the current window
    endBar,     \* NewQuoteFromCoinbase: end of the current window
    endReq,     \* NewQuoteFromCoinbase: the requested end
    step,       \* NewQuoteFromCoinbase: granularity in seconds
    quote,      \* NewQuoteFromCoinbase: the Record accumulated so far
    pages,      \* history: the requests made so far with their responses
    lastResp,   \* the response the single-request adapters received
    ret,        \* what the call returned: [out, q, err]
    \* ---- constructors, serializers and parsers --------------------------
    spc,        \* position of the serializer scenario
    q,          \* the Record the methods are called on
    qs,         \* the collection the methods are called on
    indent,     \* the indent flag of JSON
    text,       \* the text written by a serializer or handed to a parser
    doc,        \* the JSON document written by JSON or handed to a parser
    arg,        \* the symbol and bar count a constructor or parser was called with
    res,        \* what the last call returned
    \* ---- the Write methods ----------------------------------------------
    filename,   \* the filename argument of the Write method
    file,       \* the os.WriteFile call made: [method, name, content]
    \* ---- batch fetches over a symbol list -------------------------------
    bpc,        \* position of the batch fetch
    batch,      \* name of the adapter the batch function calls
    symbols,    \* the symbols argument
    quotes,     \* the collection accumulated so far
    attempts,   \* history: the single-symbol fetches made, with their outcomes
    batchRet,   \* what the batch function returned
    \* ---- market lists and symbol files ----------------------------------
    mpc,        \* position of the market-list call
    market,     \* the market argument
    token,      \* TRUE when TIINGO_API_TOKEN is set in the environment
    requests,   \* history: the network requests issued so far
    rawdata,    \* the response body handed to the market parser
    list,       \* what the market-list call returned
    ypc,        \* position of the NewSymbolsFromFile call
    raw,        \* the content of the symbols file
    syms,       \* what NewSymbolsFromFile returned
    \* ---- the two parsers of the CSV of one Record -----------------------
    cpc,        \* position of the pair of calls
    csym,       \* the symbol argument of both calls
    ctext,      \* the text argument of both calls
    format,     \* the format argument of NewQuoteFromCSVDateFormat
    plain,      \* what NewQuoteFromCSV returned
    dated,      \* what NewQuoteFromCSVDateFormat returned
    \* ---- the anonymous FTP fetch ----------------------------------------
    ppc,        \* position of getAnonFTP
    steps,      \* history: the steps executed so far, each with its success
    fetched,    \* what getAnonFTP returned
    \* ---- the command line program ---------------------------------------
    lpc,        \* position of main
    flags,      \* the parsed flags, with the token of the environment
    args,       \* the arguments after the flags
    sink,       \* the output of quote.Log: its destination and whether it is open
    resolved,   \* the symbols getSymbols has collected
    pos,        \* the index of the loop in progress
    collected,  \* outputAll: the Records collected so far
    net,        \* history: the downloads started so far
    files,      \* history: the files written so far
    logs,       \* history: the messages the fetches logged, written or lost
    status      \* how the process ended

fvars == <<fpc, adapter, symbol, startBar, endBar, endReq, step, quote, pages, lastResp, ret>>
svars == <<spc, q, qs, indent, text, doc, arg, res>>
wvars == <<filename, file>>
bvars == <<bpc, batch, symbols, quotes, attempts, batchRet>>
mvars == <<mpc, market, token, requests, rawdata, list>>
yvars == <<ypc, raw, syms>>
cvars == <<cpc, csym, ctext, format, plain, dated>>
\* the groups added to the six above
pvars == <<ppc, steps, fetched>>
lvars == <<lpc, flags, args, sink, resolved, pos, collected, net, files, logs, status>>
xvars == <<cvars, pvars, lvars>>
vars  == <<fvars, svars, wvars, bvars, mvars, yvars, xvars>>

-----------------------------------------------------------------------------
(* Bounds of the model *)

\* most rows in one upstream response of tiingo, Kraken or Huobi
MaxRows == 3
\* most candles in one Coinbase page
MaxCandles == 3
\* most bars of a Record that is serialized
MaxBars == 2
\* most Records of a collection that is serialized
MaxQuotes == 2
\* most lines after the header of a CSV text handed to a parser
MaxLines == 3
\* most elements of an array of a JSON document handed to a parser
MaxElems == 1
\* most symbols of the list handed to a batch fetch
MaxSymbols == 2
\* most entries of one upstream market list
MaxEntries == 2
\* most lines of a symbols file
MaxFileLines == 3

-----------------------------------------------------------------------------
(* Values *)

\* time.Time{}: 0001-01-01 00:00:00 UTC, before every epoch time of the model
ZeroTime == -600000

NaN    == 1000001
PosInf == 1000002
IsFinite(v) == v # NaN /\ v # PosInf

\* all sequences over S of length 0..n
RECURSIVE SeqsUpTo(_, _)
SeqsUpTo(S, n) ==
    IF n = 0 THEN {<<>>}
    ELSE LET shorter == SeqsUpTo(S, n - 1)
         IN  shorter \cup {Append(s, x) : s \in {t \in shorter : Len(t) = n - 1}, x \in S}

Reverse(s) == [i \in 1..Len(s) |-> s[Len(s) + 1 - i]]

NonDecreasing(s) == \A i \in 1..(Len(s) - 1) : s[i] <= s[i + 1]
NonIncreasing(s) == \A i \in 1..(Len(s) - 1) : s[i] >= s[i + 1]

-----------------------------------------------------------------------------
(* Strings *)

\* a character
Ch(c) == [k |-> "ch", c |-> c, n |-> 0, p |-> 0]
\* the string spelled by a sequence of characters
Str(cs) == [i \in 1..Len(cs) |-> Ch(cs[i])]

NL    == Ch("\n")
Comma == Ch(",")

\* strings.Contains(s, sub)
Contains(s, sub) ==
    \E i \in 0..(Len(s) - Len(sub)) : SubSeq(s, i + 1, i + Len(sub)) = sub

Lower == <<"b", "c", "d", "e", "h", "s", "t", "u">>
Upper == <<"B", "C", "D", "E", "H", "S", "T", "U">>

\* strings.ToUpper(s), over the letters of the model
ToUpper(s) ==
    [i \in 1..Len(s) |->
        IF s[i].k = "ch" /\ \E j \in 1..Len(Lower) : Lower[j] = s[i].c
        THEN Ch(Upper[CHOOSE j \in 1..Len(Lower) : Lower[j] = s[i].c])
        ELSE s[i]]

\* strings.Split(s, sep) for a one-character sep: one more piece than separators
RECURSIVE Split(_, _)
Split(s, sep) ==
    IF \A i \in 1..Len(s) : s[i] # sep THEN <<s>>
    ELSE LET i == CHOOSE j \in 1..Len(s) : s[j] = sep /\ \A m \in 1..(j - 1) : s[m] # sep
         IN  <<SubSeq(s, 1, i - 1)>> \o Split(SubSeq(s, i + 1, Len(s)), sep)

\* the concatenation of a sequence of strings
RECURSIVE Concat(_)
Concat(ss) == IF ss = <<>> THEN <<>> ELSE Head(ss) \o Concat(Tail(ss))

-----------------------------------------------------------------------------
(* The Quote record *)

NewQuote(sym, bars) ==
    [Symbol    |-> sym,
     Precision |-> 0,
     Date      |-> [i \in 1..bars |-> ZeroTime],
     Open      |-> [i \in 1..bars |-> 0],
     High      |-> [i \in 1..bars |-> 0],
     Low       |-> [i \in 1..bars |-> 0],
     Close     |-> [i \in 1..bars |-> 0],
     Volume    |-> [i \in 1..bars |-> 0]]

\* var quote Quote; quote.Symbol = symbol
EmptyQuote(sym) ==
    [Symbol |-> sym, Precision |-> 0, Date |-> <<>>, Open |-> <<>>,
     High |-> <<>>, Low |-> <<>>, Close |-> <<>>, Volume |-> <<>>]

SameLengths(r) ==
    /\ Len(r.Date) = Len(r.Open)
    /\ Len(r.Date) = Len(r.High)
    /\ Len(r.Date) = Len(r.Low)
    /\ Len(r.Date) = Len(r.Close)
    /\ Len(r.Date) = Len(r.Volume)

NoQuote == EmptyQuote(<<>>)

\* outcomes of a call
Returned(r, e) == [out |-> "returned", q |-> r, err |-> e]
Panicked       == [out |-> "panic",    q |-> NoQuote, err |-> FALSE]
NotReturned    == [out |-> "none",     q |-> NoQuote, err |-> FALSE]

-----------------------------------------------------------------------------
(* Periods *)

Min1    == "60"
Min5    == "300"
Min15   == "900"
Min30   == "1800"
Min60   == "3600"
Daily   == "d"
Weekly  == "w"
Monthly == "m"

\* the periods the model calls the adapters with; Monthly is not a Coinbase
\* period and takes the default branch
Periods == {Min1, Daily, Monthly}

\* the symbols the adapters are called with
BtcUsd == Str(<<"b", "t", "c", "-", "u", "s", "d">>)
Spy    == Str(<<"s", "p", "y">>)
FetchSymbols == {BtcUsd, Spy}

-----------------------------------------------------------------------------
(* Upstream responses *)

SecondsPerDay == 86400

\* One upstream bar.  id numbers the bar; its time is derived from id and the
\* five values are pairwise distinct so that a swap of fields or of rows shows.
\* form: "ok"    a bar of the documented shape
\*       "bad"   a date text of the right length that does not parse (tiingo),
\*       "short" a date text shorter than 10 characters (tiingo daily), or an
\*               element of the wrong JSON type (Kraken)
Row(id, form) ==
    [id |-> id, form |-> form,
     O |-> 10 * id + 1, H |-> 10 * id + 2, L |-> 10 * id + 3,
     C |-> 10 * id + 4, V |-> 10 * id + 5, X |-> 10 * id + 6]

RowIds == 1..3
OkRows  == {Row(id, "ok") : id \in RowIds}
AnyRows == OkRows \cup {Row(1, "bad"), Row(1, "short")}

\* body: "syntax" not JSON at all; "shape" valid JSON of another shape;
\*       "rows" the documented shape
TiingoDailyResponses ==
    {[transport |-> FALSE, status |-> 0, body |-> "syntax", rows |-> <<>>]}
    \cup [transport : {TRUE}, status : {404, 500}, body : {"shape"}, rows : {<<>>}]
    \cup [transport : {TRUE}, status : {200}, body : {"syntax", "shape"}, rows : {<<>>}]
    \cup [transport : {TRUE}, status : {200}, body : {"rows"}, rows : SeqsUpTo(AnyRows, MaxRows)]

\* tickers: the priceData of every element of the top-level array
TiingoCryptoResponses ==
    {[transport |-> FALSE, body |-> "syntax", tickers |-> <<>>]}
    \cup [transport : {TRUE}, body : {"syntax", "shape"}, tickers : {<<>>}]
    \cup [transport : {TRUE}, body : {"rows"},
          tickers : {<<>>} \cup {<<r>> : r \in SeqsUpTo(AnyRows \ {Row(1, "short")}, MaxRows)}
                    \cup {<<<<Row(2, "ok")>>, <<Row(1, "ok")>>>>}]

\* result: "nil" no result member (error reply), "notobject", or "object" with
\* the single key `key`; isarr: the value under the key is a JSON array
KrakenResponses ==
    {[transport |-> FALSE, body |-> "syntax", result |-> "nil", key |-> <<>>,
      isarr |-> FALSE, rows |-> <<>>]}
    \cup [transport : {TRUE}, body : {"syntax", "shape"}, result : {"nil"}, key : {<<>>},
          isarr : {FALSE}, rows : {<<>>}]
    \cup [transport : {TRUE}, body : {"rows"}, result : {"nil", "notobject"}, key : {<<>>},
          isarr : {FALSE}, rows : {<<>>}]
    \cup [transport : {TRUE}, body : {"rows"}, result : {"object"}, key : FetchSymbols,
          isarr : {FALSE}, rows : {<<>>}]
    \cup [transport : {TRUE}, body : {"rows"}, result : {"object"}, key : FetchSymbols,
          isarr : {TRUE}, rows : SeqsUpTo(AnyRows \ {Row(1, "bad")}, MaxRows)]

\* body "shape": a type error inside the document; encoding/json reports it
\* and still stores the elements it could decode
HuobiResponses ==
    {[transport |-> FALSE, body |-> "syntax", rows |-> <<>>]}
    \cup [transport : {TRUE}, body : {"syntax"}, rows : {<<>>}]
    \cup [transport : {TRUE}, body : {"shape", "rows"}, rows : SeqsUpTo(OkRows, MaxRows)]

-----------------------------------------------------------------------------
(* Provider adapters that take one response *)

\* time.Parse("2006-01-02", Date[0:10]) and time.Parse(time.RFC3339, Date),
\* the error dropped: a text that does not parse leaves the zero time
ParseDay(row) == IF row.form = "ok" THEN row.id * SecondsPerDay ELSE ZeroTime

\* the fill loop of tiingoDaily: adjusted prices, raw volume, upstream order
TiingoFill(sym, rows) ==
    [Symbol    |-> sym,
     Precision |-> 0,
     Date      |-> [i \in 1..Len(rows) |-> ParseDay(rows[i])],
     Open      |-> [i \in 1..Len(rows) |-> rows[i].O],
     High      |-> [i \in 1..Len(rows) |-> rows[i].H],
     Low       |-> [i \in 1..Len(rows) |-> rows[i].L],
     Close     |-> [i \in 1..Len(rows) |-> rows[i].C],
     Volume    |-> [i \in 1..Len(rows) |-> rows[i].V]]

tiingoDaily(sym, resp) ==
    IF ~resp.transport THEN Returned(NewQuote(<<>>, 0), TRUE)
    ELSE IF resp.status = 200 /\ resp.body # "rows" THEN Returned(NewQuote(<<>>, 0), TRUE)
    ELSE IF resp.status = 404 THEN Returned(NewQuote(<<>>, 0), FALSE)
    ELSE LET tiingo == IF resp.status = 200 THEN resp.rows ELSE <<>>
         IN  IF \E i \in 1..Len(tiingo) : tiingo[i].form = "short"
             THEN Panicked      \* Date[0:10] of a shorter string
             ELSE Returned(TiingoFill(sym, tiingo), FALSE)

tiingoCrypto(sym, resp) ==
    IF ~resp.transport THEN Returned(NewQuote(<<>>, 0), TRUE)
    ELSE IF resp.body # "rows" THEN Returned(NewQuote(<<>>, 0), TRUE)
    ELSE IF Len(resp.tickers) < 1 THEN Returned(NewQuote(<<>>, 0), FALSE)
    ELSE Returned(TiingoFill(sym, resp.tickers[1]), FALSE)

\* the fill loop of NewQuoteFromKraken: upstream order, element 6 is the volume
KrakenFill(sym, rows) ==
    [Symbol    |-> sym,
     Precision |-> 0,
     Date      |-> [i \in 1..Len(rows) |-> rows[i].id * 60],
     Open      |-> [i \in 1..Len(rows) |-> rows[i].O],
     High      |-> [i \in 1..Len(rows) |-> rows[i].H],
     Low       |-> [i \in 1..Len(rows) |-> rows[i].L],
     Close     |-> [i \in 1..Len(rows) |-> rows[i].C],
     Volume    |-> [i \in 1..Len(rows) |-> rows[i].V]]

\* mutant: the append of Volume is missing
AppendQuote_NoVolume(acc, blk) ==
    [Symbol    |-> acc.Symbol,
     Precision |-> acc.Precision,
     Date      |-> acc.Date \o blk.Date,
     Open      |-> acc.Open \o blk.Open,
     High      |-> acc.High \o blk.High,
     Low       |-> acc.Low \o blk.Low,
     Close     |-> acc.Close \o blk.Close,
     Volume    |-> acc.Volume]

\* append(quote.X, q.X...) for the six sequences
AppendQuote(acc, blk) ==
    [Symbol    |-> acc.Symbol,
     Precision |-> acc.Precision,
     Date      |-> acc.Date \o blk.Date,
     Open      |-> acc.Open \o blk.Open,
     High      |-> acc.High \o blk.High,
     Low       |-> acc.Low \o blk.Low,
     Close     |-> acc.Close \o blk.Close,
     Volume    |-> acc.Volume \o blk.Volume]

NewQuoteFromKraken(sym, resp) ==
    IF ~resp.transport THEN Returned(NewQuote(<<>>, 0), TRUE)
    ELSE IF resp.body # "rows" THEN Returned(NewQuote(<<>>, 0), TRUE)
    ELSE IF resp.result # "object" THEN Panicked   \* result.Result.(map[string]interface{})
    ELSE IF resp.key # sym THEN Returned(NewQuote(<<>>, 0), FALSE)
    ELSE IF ~resp.isarr THEN Panicked              \* iibars.([]interface{})
    ELSE IF \E i \in 1..Len(resp.rows) : resp.rows[i].form # "ok"
         THEN Panicked                             \* bars[k].(float64), bars[k].(string)
    ELSE Returned(AppendQuote(EmptyQuote(sym), KrakenFill(sym, resp.rows)), FALSE)

\* the fill loop of NewQuoteFromHuobi: source row bar goes to numrows-1-bar
HuobiFill(sym, rows) ==
    LET n == Len(rows)
    IN  [Symbol    |-> sym,
         Precision |-> 0,
         Date      |-> [i \in 1..n |-> rows[n + 1 - i].id * 60],
         Open      |-> [i \in 1..n |-> rows[n + 1 - i].O],
         High      |-> [i \in 1..n |-> rows[n + 1 - i].H],
         Low       |-> [i \in 1..n |-> rows[n + 1 - i].L],
         Close     |-> [i \in 1..n |-> rows[n + 1 - i].C],
         Volume    |-> [i \in 1..n |-> rows[n + 1 - i].V]]

\* a body that does not decode is logged and the call goes on with what was decoded
NewQuoteFromHuobi(sym, resp) ==
    IF ~resp.transport THEN Returned(NewQuote(<<>>, 0), TRUE)
    ELSE Returned(AppendQuote(EmptyQuote(sym), HuobiFill(sym, resp.rows)), FALSE)

-----------------------------------------------------------------------------
(* NewQuoteFromCoinbase: one request per window *)

\* maxBars := 200
maxBars == 200

Granularity(period) ==
    CASE period = Min1   -> 60
      [] period = Min5   -> 5 * 60
      [] period = Min15  -> 15 * 60
      [] period = Min30  -> 30 * 60
      [] period = Min60  -> 60 * 60
      [] period = Daily  -> 24 * 60 * 60
      [] period = Weekly -> 7 * 24 * 60 * 60
      [] OTHER           -> 24 * 60 * 60

\* a candle [time, low, high, open, close, volume]; k is the bucket number
\* counted from the window start
Candle(s, stp, k) ==
    <<s + k * stp, 10 * k + 1, 10 * k + 2, 10 * k + 3, 10 * k + 4, 10 * k + 5>>

\* the candles the exchange can return for the window [s, e]: their times lie
\* in the window, which the exchange honours; their order is not constrained
WindowCandles(s, e, stp) == {Candle(s, stp, k) : k \in {j \in {0, 1, maxBars} : s + j * stp <= e}}

CoinbaseResponses(s, e, stp) ==
    {[transport |-> FALSE, body |-> "syntax", bars |-> <<>>]}
    \cup [transport : {TRUE}, body : {"syntax"}, bars : {<<>>}]
    \cup [transport : {TRUE}, body : {"shape"}, bars : SeqsUpTo(WindowCandles(s, e, stp), 1)]
    \cup [transport : {TRUE}, body : {"rows"},
          bars : SeqsUpTo(WindowCandles(s, e, stp), MaxCandles)]

\* mutant: the rows are stored in source order
CoinbaseFill_NoReverse(sym, bars) ==
    LET n == Len(bars)
    IN  [Symbol    |-> sym,
         Precision |-> 0,
         Date      |-> [i \in 1..n |-> bars[i][1]],
         Open      |-> [i \in 1..n |-> bars[i][4]],
         High      |-> [i \in 1..n |-> bars[i][3]],
         Low       |-> [i \in 1..n |-> bars[i][2]],
         Close     |-> [i \in 1..n |-> bars[i][5]],
         Volume    |-> [i \in 1..n |-> bars[i][6]]]

\* the fill loop: row goes to numrows-1-row; [time, low, high, open, close, volume]
CoinbaseFill(sym, bars) ==
    LET n == Len(bars)
    IN  [Symbol    |-> sym,
         Precision |-> 0,
         Date      |-> [i \in 1..n |-> bars[n + 1 - i][1]],
         Open      |-> [i \in 1..n |-> bars[n + 1 - i][4]],
         High      |-> [i \in 1..n |-> bars[n + 1 - i][3]],
         Low       |-> [i \in 1..n |-> bars[n + 1 - i][2]],
         Close     |-> [i \in 1..n |-> bars[n + 1 - i][5]],
         Volume    |-> [i \in 1..n |-> bars[n + 1 - i][6]]]

\* the requested ranges: none, less than a window, two windows
StartTimes == {0}
EndOffsets(stp) == {0 - stp, 0, stp, (maxBars + 2) * stp}

-----------------------------------------------------------------------------
(* The calls of the adapters *)

NoResponse == [transport |-> FALSE, body |-> "none"]

FetchIdle ==
    /\ fpc = "idle"
    /\ adapter = "none"
    /\ symbol = <<>>
    /\ startBar = 0
    /\ endBar = 0
    /\ endReq = 0
    /\ step = 0
    /\ quote = NoQuote
    /\ pages = <<>>
    /\ lastResp = NoResponse
    /\ ret = NotReturned

\* no Write method was called
NoFile == [method |-> "none", name |-> <<>>, content |-> <<>>]

WriteIdle ==
    /\ filename = <<>>
    /\ file = NoFile

\* no batch function was called
NoBatchReturn == [out |-> "none", quotes |-> <<>>, err |-> FALSE]

BatchIdle ==
    /\ bpc = "off"
    /\ batch = "none"
    /\ symbols = <<>>
    /\ quotes = <<>>
    /\ attempts = <<>>
    /\ batchRet = NoBatchReturn

\* no market list was asked for
NoList == [fn |-> "none", out |-> "none", symbols |-> <<>>, err |-> FALSE]

MarketIdle ==
    /\ mpc = "off"
    /\ market = <<>>
    /\ token = FALSE
    /\ requests = <<>>
    /\ rawdata = [transport |-> FALSE, form |-> "none", entries |-> <<>>]
    /\ list = NoList

SymbolsIdle ==
    /\ ypc = "off"
    /\ raw = [ok |-> FALSE, content |-> <<>>]
    /\ syms = NoList

Single(name, sym, r, outcome) ==
    /\ fpc' = "done"
    /\ adapter' = name
    /\ symbol' = sym
    /\ lastResp' = r
    /\ ret' = outcome
    /\ UNCHANGED <<startBar, endBar, endReq, step, quote, pages>>
    /\ UNCHANGED <<svars, wvars, bvars, mvars, yvars, xvars>>

CallTiingoDaily ==
    /\ fpc = "idle"
    /\ \E sym \in FetchSymbols, r \in TiingoDailyResponses :
        Single("tiingoDaily", sym, r, tiingoDaily(sym, r))

CallTiingoCrypto ==
    /\ fpc = "idle"
    /\ \E sym \in FetchSymbols, r \in TiingoCryptoResponses :
        Single("tiingoCrypto", sym, r, tiingoCrypto(sym, r))

CallKraken ==
    /\ fpc = "idle"
    /\ \E sym \in FetchSymbols, r \in KrakenResponses :
        Single("kraken", sym, r, NewQuoteFromKraken(sym, r))

CallHuobi ==
    /\ fpc = "idle"
    /\ \E sym \in FetchSymbols, r \in HuobiResponses :
        Single("huobi", sym, r, NewQuoteFromHuobi(sym, r))

Min(a, b) == IF a < b THEN a ELSE b

\* NewQuoteFromCoinbase up to the loop
CallCoinbase ==
    /\ fpc = "idle"
    /\ \E sym \in FetchSymbols, period \in Periods, start \in StartTimes :
       \E off \in EndOffsets(Granularity(period)) :
        /\ fpc' = "coinbase"
        /\ adapter' = "coinbase"
        /\ symbol' = sym
        /\ step' = Granularity(period)
        /\ endReq' = start + off
        /\ startBar' = start
        /\ endBar' = Min(start + maxBars * Granularity(period), start + off)
        /\ quote' = EmptyQuote(sym)
        /\ UNCHANGED <<pages, lastResp, ret>>
        /\ UNCHANGED <<svars, wvars, bvars, mvars, yvars, xvars>>

\* mutant: the next window starts where the last one ended
NextStart_NoStep(sB, eB, stp) == eB

\* mutant: the window start is not advanced
NextStart_Stuck(sB, eB, stp) == sB

\* startBar = endBar.Add(step)
NextStart(sB, eB, stp) == eB + stp

\* one iteration of the loop: request the window, decode, reverse, append, advance
CoinbasePage ==
    /\ fpc = "coinbase"
    /\ startBar < endReq
    /\ \E r \in CoinbaseResponses(startBar, endBar, step) :
        /\ pages' = Append(pages, [start |-> startBar, end |-> endBar, resp |-> r])
        /\ IF ~r.transport
           THEN /\ ret' = Returned(NewQuote(<<>>, 0), TRUE)
                /\ fpc' = "done"
                /\ UNCHANGED <<quote, startBar, endBar>>
           ELSE /\ quote' = AppendQuote(quote, CoinbaseFill(symbol, r.bars))
                /\ startBar' = NextStart(startBar, endBar, step)
                /\ endBar' = NextStart(startBar, endBar, step) + maxBars * step
                /\ UNCHANGED <<ret, fpc>>
    /\ UNCHANGED <<adapter, symbol, endReq, step, lastResp>>
    /\ UNCHANGED <<svars, wvars, bvars, mvars, yvars, xvars>>

\* the loop condition fails: return quote, nil
CoinbaseReturn ==
    /\ fpc = "coinbase"
    /\ ~(startBar < endReq)
    /\ fpc' = "done"
    /\ ret' = Returned(quote, FALSE)
    /\ UNCHANGED <<adapter, symbol, startBar, endBar, endReq, step, quote, pages, lastResp>>
    /\ UNCHANGED <<svars, wvars, bvars, mvars, yvars, xvars>>

FetchNext ==
    \/ CallTiingoDaily
    \/ CallTiingoCrypto
    \/ CallKraken
    \/ CallHuobi
    \/ CallCoinbase
    \/ CoinbasePage
    \/ CoinbaseReturn

-----------------------------------------------------------------------------
(* Claims about the adapters, checked under SpecFetch *)

\* C1: every Record an adapter returns, and the Record NewQuoteFromCoinbase
\* accumulates after every page, has six sequences of one length.
C1_AdapterLengthsEqual ==
    /\ ret.out = "returned" => SameLengths(ret.q)
    /\ SameLengths(quote)

\* C1 witness: Coinbase returned a Record put together from two non-empty pages
C1_Witness ==
    /\ adapter = "coinbase"
    /\ ret.out = "returned"
    /\ Len(pages) = 2
    /\ Len(pages[1].resp.bars) > 0
    /\ Len(pages[2].resp.bars) > 0
    /\ Len(ret.q.Volume) = Len(pages[1].resp.bars) + Len(pages[2].resp.bars)

\* C3: the Date sequence of every returned Record is non-decreasing, whatever
\* order the upstream response lists its bars in.
C3_DatesNonDecreasing ==
    ret.out = "returned" => NonDecreasing(ret.q.Date)

\* number of candles stored before page p
RECURSIVE BarsBefore(_, _)
BarsBefore(pgs, p) ==
    IF p <= 1 THEN 0 ELSE BarsBefore(pgs, p - 1) + Len(pgs[p - 1].resp.bars)

NewestFirst(bars) == NonIncreasing([i \in 1..Len(bars) |-> bars[i][1]])

-----------------------------------------------------------------------------
(* Formatting and parsing of dates and numbers *)

\* a word of a header line
Word(w) == [k |-> "word", c |-> w, n |-> 0, p |-> 0]

\* t.Format("2006-01-02 15:04"): the minute, the seconds are dropped
FormatMinute(t) == [k |-> "date", c |-> "", n |-> t \div 60, p |-> 0]
\* t.Format("2006-01-02") and t.Format("15:04")
FormatDay(t)    == [k |-> "day", c |-> "", n |-> t \div SecondsPerDay, p |-> 0]
FormatClock(t)  == [k |-> "clock", c |-> "", n |-> (t % SecondsPerDay) \div 60, p |-> 0]
\* fmt "%d" of t.UnixNano()/1000000
FormatMillis(t) == [k |-> "int", c |-> "", n |-> t * 1000, p |-> 0]

RECURSIVE Pow10(_)
Pow10(e) == IF e = 0 THEN 1 ELSE 10 * Pow10(e - 1)

\* the nearest number with prec decimals, in thousandths
RoundTo(v, prec) ==
    IF prec >= 3 THEN v
    ELSE LET u == Pow10(3 - prec) IN ((v + u \div 2) \div u) * u

\* fmt "%.*f": n is the number the text denotes, p the decimals it is written
\* with; NaN and +Inf are written without decimals
FormatFloat(prec, v) ==
    IF IsFinite(v) THEN [k |-> "num", c |-> "", n |-> RoundTo(v, prec), p |-> prec]
    ELSE [k |-> "num", c |-> "", n |-> v, p |-> 0]

\* strconv.ParseFloat(s, 64), the error dropped: 0 for a text that is no number
ParseFloat(s) == IF Len(s) = 1 /\ s[1].k = "num" THEN s[1].n ELSE 0

\* time.Parse("2006-01-02 15:04", s), the error dropped
ParseMinute(s) == IF Len(s) = 1 /\ s[1].k = "date" THEN s[1].n * 60 ELSE ZeroTime

\* mutant: the symbol is compared as it is written
getPrecision_CaseSensitive(sym) ==
    IF \/ Contains(sym, Str(<<"B", "T", "C">>))
       \/ Contains(sym, Str(<<"E", "T", "H">>))
       \/ Contains(sym, Str(<<"U", "S", "D">>))
    THEN 8 ELSE 2

getPrecision(sym) ==
    IF \/ Contains(ToUpper(sym), Str(<<"B", "T", "C">>))
       \/ Contains(ToUpper(sym), Str(<<"E", "T", "H">>))
       \/ Contains(ToUpper(sym), Str(<<"U", "S", "D">>))
    THEN 8 ELSE 2

-----------------------------------------------------------------------------
(* Serializers *)

\* "%.*f,%.*f,%.*f,%.*f,%.*f": open, high, low, close, volume of one bar
FiveFloats(r, bar, prec) ==
    <<FormatFloat(prec, r.Open[bar]), Comma, FormatFloat(prec, r.High[bar]), Comma,
      FormatFloat(prec, r.Low[bar]), Comma, FormatFloat(prec, r.Close[bar]), Comma,
      FormatFloat(prec, r.Volume[bar])>>

OHLCVHeader ==
    <<Word("open"), Comma, Word("high"), Comma, Word("low"), Comma,
      Word("close"), Comma, Word("volume"), NL>>

\* Quote.CSV
QuoteCSV(r) ==
    LET precision == getPrecision(r.Symbol)
    IN  <<Word("datetime"), Comma>> \o OHLCVHeader
        \o Concat([bar \in 1..Len(r.Close) |->
              <<FormatMinute(r.Date[bar]), Comma>> \o FiveFloats(r, bar, precision) \o <<NL>>])

\* Quote.Amibroker
QuoteAmibroker(r) ==
    LET precision == getPrecision(r.Symbol)
    IN  <<Word("date"), Comma, Word("time"), Comma>> \o OHLCVHeader
        \o Concat([bar \in 1..Len(r.Close) |->
              <<FormatDay(r.Date[bar]), Comma, FormatClock(r.Date[bar]), Comma>>
              \o FiveFloats(r, bar, precision) \o <<NL>>])

\* "[%d,%.*f,%.*f,%.*f,%.*f,%.*f]%s\n"
HighstockTuple(r, bar, prec) ==
    <<Ch("["), FormatMillis(r.Date[bar]), Comma>> \o FiveFloats(r, bar, prec) \o <<Ch("]")>>
    \o (IF bar = Len(r.Close) THEN <<>> ELSE <<Comma>>) \o <<NL>>

\* Quote.Highstock
QuoteHighstock(r) ==
    LET precision == getPrecision(r.Symbol)
    IN  <<Ch("["), NL>>
        \o Concat([bar \in 1..Len(r.Close) |-> HighstockTuple(r, bar, precision)])
        \o <<Ch("]"), NL>>

\* Quotes.CSV
QuotesCSV(c) ==
    <<Word("symbol"), Comma, Word("datetime"), Comma>> \o OHLCVHeader
    \o Concat([sym \in 1..Len(c) |->
          LET precision == getPrecision(c[sym].Symbol)
          IN  Concat([bar \in 1..Len(c[sym].Close) |->
                c[sym].Symbol \o <<Comma, FormatMinute(c[sym].Date[bar]), Comma>>
                \o FiveFloats(c[sym], bar, precision) \o <<NL>>])])

\* Quotes.Amibroker
QuotesAmibroker(c) ==
    <<Word("symbol"), Comma, Word("date"), Comma, Word("time"), Comma>> \o OHLCVHeader
    \o Concat([sym \in 1..Len(c) |->
          LET precision == getPrecision(c[sym].Symbol)
          IN  Concat([bar \in 1..Len(c[sym].Close) |->
                c[sym].Symbol
                \o <<Comma, FormatDay(c[sym].Date[bar]), Comma, FormatClock(c[sym].Date[bar]), Comma>>
                \o FiveFloats(c[sym], bar, precision) \o <<NL>>])])

\* Quotes.Highstock: the key and the opening bracket are written with the
\* first bar, the closing bracket after the bars of every Record
QuotesHighstock(c) ==
    <<Ch("{")>>
    \o Concat([sym \in 1..Len(c) |->
          LET precision == getPrecision(c[sym].Symbol)
          IN  Concat([bar \in 1..Len(c[sym].Close) |->
                (IF bar = 1
                 THEN <<Ch("\"")>> \o c[sym].Symbol \o <<Ch("\""), Ch(":"), Ch("["), NL>>
                 ELSE <<>>)
                \o HighstockTuple(c[sym], bar, precision)])
              \o (IF sym < Len(c) THEN <<Ch("]"), Comma, NL>> ELSE <<Ch("]"), NL>>)])
    \o <<Ch("}")>>

-----------------------------------------------------------------------------
(* CSV parsers *)

\* the number of data rows read before the loop breaks: the rows from tmp[1]
\* up to the first one whose column count is not 6
RowsRead(tmp) ==
    LET bad == {row \in 2..Len(tmp) : Len(Split(tmp[row], Comma)) # 6}
    IN  IF bad = {} THEN Len(tmp) - 1
        ELSE (CHOOSE row \in bad : \A other \in bad : row <= other) - 2

\* mutant: a row whose column count is not 6 is skipped and the loop goes on
NewQuoteFromCSV_Continue(sym, csv) ==
    LET tmp     == Split(csv, NL)
        numrows == Len(tmp)
        blank   == NewQuote(sym, numrows - 1)
        line(bar) == Split(tmp[bar + 1], Comma)
        cell(bar, col, parse(_), zero) ==
            IF Len(line(bar)) = 6 THEN parse(line(bar)[col]) ELSE zero
    IN  [Symbol    |-> sym,
         Precision |-> 0,
         Date      |-> [bar \in 1..(numrows - 1) |-> cell(bar, 1, ParseMinute, blank.Date[bar])],
         Open      |-> [bar \in 1..(numrows - 1) |-> cell(bar, 2, ParseFloat, blank.Open[bar])],
         High      |-> [bar \in 1..(numrows - 1) |-> cell(bar, 3, ParseFloat, blank.High[bar])],
         Low       |-> [bar \in 1..(numrows - 1) |-> cell(bar, 4, ParseFloat, blank.Low[bar])],
         Close     |-> [bar \in 1..(numrows - 1) |-> cell(bar, 5, ParseFloat, blank.Close[bar])],
         Volume    |-> [bar \in 1..(numrows - 1) |-> cell(bar, 6, ParseFloat, blank.Volume[bar])]]

\* NewQuoteFromCSV: numrows-1 bars are allocated, the rows read fill the first
\* of them, the others keep the values of NewQuote
NewQuoteFromCSV(sym, csv) ==
    LET tmp     == Split(csv, NL)
        numrows == Len(tmp)
        read    == RowsRead(tmp)
        blank   == NewQuote(sym, numrows - 1)
        line(bar) == Split(tmp[bar + 1], Comma)
    IN  [Symbol    |-> sym,
         Precision |-> 0,
         Date      |-> [bar \in 1..(numrows - 1) |->
                          IF bar <= read THEN ParseMinute(line(bar)[1]) ELSE blank.Date[bar]],
         Open      |-> [bar \in 1..(numrows - 1) |->
                          IF bar <= read THEN ParseFloat(line(bar)[2]) ELSE blank.Open[bar]],
         High      |-> [bar \in 1..(numrows - 1) |->
                          IF bar <= read THEN ParseFloat(line(bar)[3]) ELSE blank.High[bar]],
         Low       |-> [bar \in 1..(numrows - 1) |->
                          IF bar <= read THEN ParseFloat(line(bar)[4]) ELSE blank.Low[bar]],
         Close     |-> [bar \in 1..(numrows - 1) |->
                          IF bar <= read THEN ParseFloat(line(bar)[5]) ELSE blank.Close[bar]],
         Volume    |-> [bar \in 1..(numrows - 1) |->
                          IF bar <= read THEN ParseFloat(line(bar)[6]) ELSE blank.Volume[bar]]]

\* the first loop of NewQuotesFromCSV: index[sym]++ for the leading column of
\* every line after the header
SymbolOfRow(tmp, row) == Split(tmp[row], Comma)[1]
IndexKeys(tmp) == {SymbolOfRow(tmp, row) : row \in 2..Len(tmp)}
IndexCount(tmp, sym) == Cardinality({row \in 2..Len(tmp) : SymbolOfRow(tmp, row) = sym})

\* the orders in which `for sym, len := range index` can visit the keys
KeyOrders(tmp) ==
    {ord \in [1..Cardinality(IndexKeys(tmp)) -> IndexKeys(tmp)] :
        \A i, j \in DOMAIN ord : i # j => ord[i] # ord[j]}

\* rows consumed before the k-th key of the order is visited
RECURSIVE RowsBefore(_, _, _)
RowsBefore(tmp, ord, k) ==
    IF k <= 1 THEN 0 ELSE RowsBefore(tmp, ord, k - 1) + IndexCount(tmp, ord[k - 1])

\* the second loop of NewQuotesFromCSV under one visiting order: the Record of
\* the k-th key takes the next len lines of the text, whatever their symbol;
\* a line with fewer than 7 columns panics at line[1]..line[6]
NewQuotesFromCSV(csv, ord) ==
    LET tmp == Split(csv, NL)
        line(k, bar) == Split(tmp[1 + RowsBefore(tmp, ord, k) + bar], Comma)
    IN  IF \E row \in 2..Len(tmp) : Len(Split(tmp[row], Comma)) < 7
        THEN [out |-> "panic", q |-> NoQuote, qs |-> <<>>, err |-> FALSE]
        ELSE [out |-> "returned", q |-> NoQuote, err |-> FALSE,
              qs  |-> [k \in 1..Len(ord) |->
                 LET len == IndexCount(tmp, ord[k])
                 IN  [Symbol    |-> ord[k],
                      Precision |-> 0,
                      Date      |-> [bar \in 1..len |-> ParseMinute(line(k, bar)[2])],
                      Open      |-> [bar \in 1..len |-> ParseFloat(line(k, bar)[3])],
                      High      |-> [bar \in 1..len |-> ParseFloat(line(k, bar)[4])],
                      Low       |-> [bar \in 1..len |-> ParseFloat(line(k, bar)[5])],
                      Close     |-> [bar \in 1..len |-> ParseFloat(line(k, bar)[6])],
                      Volume    |-> [bar \in 1..len |-> ParseFloat(line(k, bar)[7])]]]]

-----------------------------------------------------------------------------
(* JSON, as encoding/json writes and reads the Quote struct *)

\* A JSON document: form "ok" is an object with the members of a Quote (an
\* absent member is an empty array), "type" an object one of whose values has
\* the wrong type, "syntax" a text that is not JSON, "empty" the empty text.
\* The whitespace of the text is the flag indent.
JSONObject(form, ind, r) ==
    [form |-> form, indent |-> ind, symbol |-> r.Symbol, date |-> r.Date, open |-> r.Open,
     high |-> r.High, low |-> r.Low, close |-> r.Close, volume |-> r.Volume, items |-> <<>>]

JSONArray(form, ind, members) ==
    [form |-> form, indent |-> ind, symbol |-> <<>>, date |-> <<>>, open |-> <<>>,
     high |-> <<>>, low |-> <<>>, close |-> <<>>, volume |-> <<>>, items |-> members]

EmptyDoc == JSONArray("empty", FALSE, <<>>)

\* time.Time.MarshalJSON: RFC 3339 with the seconds and their fraction
FormatRFC3339(t) == [k |-> "rfc3339", c |-> "", n |-> t, p |-> 0]
\* a float64 is written with the fewest digits that read back as the same value
FormatShortest(v) == [k |-> "num", c |-> "", n |-> v, p |-> -1]

\* json.Marshal fails on NaN and on an infinity
Marshallable(r) ==
    \A f \in {"Open", "High", "Low", "Close", "Volume"} :
        \A i \in 1..Len(r[f]) : IsFinite(r[f][i])

\* the members json.Marshal writes for one Quote; Precision has the tag "-"
MarshalQuote(r) ==
    [Symbol |-> r.Symbol,
     Date   |-> [i \in 1..Len(r.Date)   |-> FormatRFC3339(r.Date[i])],
     Open   |-> [i \in 1..Len(r.Open)   |-> FormatShortest(r.Open[i])],
     High   |-> [i \in 1..Len(r.High)   |-> FormatShortest(r.High[i])],
     Low    |-> [i \in 1..Len(r.Low)    |-> FormatShortest(r.Low[i])],
     Close  |-> [i \in 1..Len(r.Close)  |-> FormatShortest(r.Close[i])],
     Volume |-> [i \in 1..Len(r.Volume) |-> FormatShortest(r.Volume[i])]]

\* Quote.JSON: the error of json.Marshal is dropped and the text is then empty
QuoteJSON(r, ind) ==
    IF Marshallable(r) THEN JSONObject("ok", ind, MarshalQuote(r)) ELSE EmptyDoc

\* Quotes.JSON
QuotesJSON(c, ind) ==
    IF \A i \in 1..Len(c) : Marshallable(c[i])
    THEN JSONArray("ok", ind, [i \in 1..Len(c) |-> JSONObject("ok", ind, MarshalQuote(c[i]))])
    ELSE EmptyDoc

\* one element of a JSON array read into a time.Time or a float64
ReadTime(tok)  == IF tok.k = "rfc3339" THEN tok.n ELSE ZeroTime
ReadFloat(tok) == IF tok.k = "num" THEN tok.n ELSE 0

\* json.Unmarshal into a Quote: every member sets its own field
UnmarshalQuote(d) ==
    [Symbol    |-> d.symbol,
     Precision |-> 0,
     Date      |-> [i \in 1..Len(d.date)   |-> ReadTime(d.date[i])],
     Open      |-> [i \in 1..Len(d.open)   |-> ReadFloat(d.open[i])],
     High      |-> [i \in 1..Len(d.high)   |-> ReadFloat(d.high[i])],
     Low       |-> [i \in 1..Len(d.low)    |-> ReadFloat(d.low[i])],
     Close     |-> [i \in 1..Len(d.close)  |-> ReadFloat(d.close[i])],
     Volume    |-> [i \in 1..Len(d.volume) |-> ReadFloat(d.volume[i])]]

\* outcomes of the calls of this section
One(r, e)   == [out |-> "returned", q |-> r, qs |-> <<>>, err |-> e]
Many(c, e)  == [out |-> "returned", q |-> NoQuote, qs |-> c, err |-> e]
Panic       == [out |-> "panic", q |-> NoQuote, qs |-> <<>>, err |-> FALSE]
NoResult    == [out |-> "none", q |-> NoQuote, qs |-> <<>>, err |-> FALSE]
NoArg       == [sym |-> <<>>, bars |-> 0]

\* NewQuoteFromJSON: q and the error of json.Unmarshal
NewQuoteFromJSON(d) ==
    IF d.form \in {"syntax", "empty"} THEN One(EmptyQuote(<<>>), TRUE)
    ELSE One(UnmarshalQuote(d), d.form # "ok")

\* NewQuotesFromJSON
NewQuotesFromJSON(d) ==
    IF d.form \in {"syntax", "empty"} THEN Many(<<>>, TRUE)
    ELSE Many([i \in 1..Len(d.items) |-> UnmarshalQuote(d.items[i])],
              d.form # "ok" \/ \E i \in 1..Len(d.items) : d.items[i].form # "ok")

-----------------------------------------------------------------------------
(* The Records, collections and texts the serializers and parsers are given *)

NoSymbol == <<>>
BtC      == Str(<<"B", "t", "C">>)
Xeth     == Str(<<"x", "e", "t", "h">>)
USD      == Str(<<"U", "S", "D">>)
Bt       == Str(<<"b", "t">>)
SerialSymbols == {NoSymbol, Spy, BtC, Xeth, USD, Bt}

\* open=1.0, high=2.0, low=0.5, close=1.5, volume=10 at 1970-01-01 00:00
Bar1 == [D |-> 0, O |-> 1000, H |-> 2000, L |-> 500, C |-> 1500, V |-> 10000]
\* 00:01:30 is not a whole minute and 1.234 has more than two decimals
Bar2 == [D |-> 90, O |-> 1234, H |-> 3234, L |-> 1034, C |-> 2234, V |-> 4234]
\* values json.Marshal refuses; strconv.ParseFloat returns them for "NaN", "+Inf"
Bar3 == [D |-> SecondsPerDay + 60, O |-> NaN, H |-> PosInf, L |-> 0, C |-> 500, V |-> 0]
SerialBars == {Bar1, Bar2, Bar3}

MakeQuote(sym, prec, bars) ==
    [Symbol    |-> sym,
     Precision |-> prec,
     Date      |-> [i \in 1..Len(bars) |-> bars[i].D],
     Open      |-> [i \in 1..Len(bars) |-> bars[i].O],
     High      |-> [i \in 1..Len(bars) |-> bars[i].H],
     Low       |-> [i \in 1..Len(bars) |-> bars[i].L],
     Close     |-> [i \in 1..Len(bars) |-> bars[i].C],
     Volume    |-> [i \in 1..Len(bars) |-> bars[i].V]]

SerialQuotes ==
    {MakeQuote(sym, prec, bars) :
        sym \in SerialSymbols, prec \in {0, 8}, bars \in SeqsUpTo(SerialBars, MaxBars)}

CollectionQuotes ==
    {MakeQuote(sym, 0, bars) :
        sym \in {Spy, BtC, NoSymbol}, bars \in {<<>>, <<Bar1>>, <<Bar2, Bar1>>, <<Bar3>>}}

SerialCollections == SeqsUpTo(CollectionQuotes, MaxQuotes)

\* a number written in a text handed to a parser: v with `decimals` decimals
Num(v, decimals) == [k |-> "num", c |-> "", n |-> v, p |-> decimals]

\* "1970-01-01 00:00,1.0,2.0,0.5,1.5,10"
Line1 == <<FormatMinute(0), Comma, Num(1000, 1), Comma, Num(2000, 1), Comma,
           Num(500, 1), Comma, Num(1500, 1), Comma, Num(10000, 0)>>
\* "1970-01-01 00:01,3.25,4.25,2.25,3.75,20"
Line2 == <<FormatMinute(60), Comma, Num(3250, 2), Comma, Num(4250, 2), Comma,
           Num(2250, 2), Comma, Num(3750, 2), Comma, Num(20000, 0)>>
\* five columns
LineShort == <<FormatMinute(120), Comma, Num(5000, 1), Comma, Num(6000, 1), Comma,
               Num(4000, 1), Comma, Num(5500, 1)>>
\* six columns that are neither dates nor numbers
LineJunk == <<Word("n/a"), Comma, Word("n/a"), Comma, Word("n/a"), Comma,
              Word("n/a"), Comma, Word("n/a"), Comma, Word("n/a")>>
LineBlank == <<>>
QuoteLines == {Line1, Line2, LineShort, LineJunk, LineBlank}

QuoteHeader  == <<Word("datetime"), Comma, Word("open"), Comma, Word("high"), Comma,
                  Word("low"), Comma, Word("close"), Comma, Word("volume")>>
QuotesHeader == <<Word("symbol"), Comma>> \o QuoteHeader

\* the header, then the lines each after a newline, then a last newline or none
TextOf(header, lines, newline) ==
    header \o Concat([i \in 1..Len(lines) |-> <<NL>> \o lines[i]])
    \o (IF newline THEN <<NL>> ELSE <<>>)

CSVTexts ==
    {<<>>} \cup
    {TextOf(QuoteHeader, lines, newline) :
        lines \in SeqsUpTo(QuoteLines, MaxLines), newline \in BOOLEAN}

\* the lines of a collection text: two rows of spy, one of BtC, a row with a
\* symbol alone (one column)
QuotesLines == {Spy \o <<Comma>> \o Line1, Spy \o <<Comma>> \o Line2,
                BtC \o <<Comma>> \o Line2, Spy}

QuotesCSVTexts ==
    {TextOf(QuotesHeader, lines, newline) :
        lines \in SeqsUpTo(QuotesLines, MaxLines), newline \in BOOLEAN}

\* JSON documents handed to NewQuoteFromJSON: every array has its own length
JSONDocs ==
    [form : {"ok", "type"}, indent : {FALSE}, symbol : {Spy},
     date   : SeqsUpTo({FormatRFC3339(60)}, MaxElems),
     open   : SeqsUpTo({FormatShortest(1000)}, MaxElems),
     high   : SeqsUpTo({FormatShortest(2000)}, MaxElems),
     low    : SeqsUpTo({FormatShortest(500)}, MaxElems),
     close  : SeqsUpTo({FormatShortest(1500)}, MaxElems),
     volume : SeqsUpTo({FormatShortest(10000)}, MaxElems),
     items  : {<<>>}]
    \cup {JSONArray("syntax", FALSE, <<>>), EmptyDoc}

\* JSON documents handed to NewQuotesFromJSON
QuotesJSONItems ==
    {JSONObject("ok", FALSE, MarshalQuote(MakeQuote(Spy, 0, <<Bar1>>))),
     [JSONObject("ok", FALSE, MarshalQuote(MakeQuote(BtC, 0, <<Bar1>>))) EXCEPT !.volume = <<>>]}
QuotesJSONDocs ==
    {JSONArray(form, FALSE, members) :
        form \in {"ok", "type"}, members \in SeqsUpTo(QuotesJSONItems, MaxQuotes)}
    \cup {JSONArray("syntax", FALSE, <<>>), EmptyDoc}

-----------------------------------------------------------------------------
(* The calls of the constructor, the serializers and the parsers *)

\* no pair of CSV parser calls is in progress
FormatIdle ==
    /\ cpc = "off"
    /\ csym = <<>>
    /\ ctext = <<>>
    /\ format = <<>>
    /\ plain = NoResult
    /\ dated = NoResult

\* no FTP fetch is in progress
FtpIdle ==
    /\ ppc = "off"
    /\ steps = <<>>
    /\ fetched = [out |-> "none", contents |-> FALSE, err |-> FALSE]

\* the command line program is not running
NoFlags == [log |-> "", source |-> "", period |-> "", tok |-> FALSE, infile |-> "",
            markets |-> <<>>, outfile |-> <<>>, format |-> "", all |-> FALSE]
NoSink == [dest |-> "none", opened |-> FALSE, open |-> FALSE]
CliIdle ==
    /\ lpc = "off"
    /\ flags = NoFlags
    /\ args = <<>>
    /\ sink = NoSink
    /\ resolved = <<>>
    /\ pos = 0
    /\ collected = <<>>
    /\ net = <<>>
    /\ files = <<>>
    /\ logs = <<>>
    /\ status = "none"

ExtraIdle == FormatIdle /\ FtpIdle /\ CliIdle

\* what a call is made on: a Record, a collection, a text, or nothing
SerialInit ==
    /\ ExtraIdle
    /\ FetchIdle
    /\ WriteIdle
    /\ BatchIdle
    /\ MarketIdle
    /\ SymbolsIdle
    /\ indent = FALSE
    /\ arg = NoArg
    /\ res = NoResult
    /\ \/ spc = "new"       /\ q = NoQuote /\ qs = <<>> /\ text = <<>> /\ doc = EmptyDoc
       \/ spc = "quote"     /\ q \in SerialQuotes /\ qs = <<>> /\ text = <<>> /\ doc = EmptyDoc
       \/ spc = "quotes"    /\ q = NoQuote /\ qs \in SerialCollections /\ text = <<>>
                            /\ doc = EmptyDoc
       \/ spc = "csv"       /\ q = NoQuote /\ qs = <<>> /\ text \in CSVTexts /\ doc = EmptyDoc
       \/ spc = "quotescsv" /\ q = NoQuote /\ qs = <<>> /\ text \in QuotesCSVTexts
                            /\ doc = EmptyDoc
       \/ spc = "json"      /\ q = NoQuote /\ qs = <<>> /\ text = <<>> /\ doc \in JSONDocs
       \/ spc = "quotesjson" /\ q = NoQuote /\ qs = <<>> /\ text = <<>>
                            /\ doc \in QuotesJSONDocs

\* NewQuote(symbol, bars); make panics on a negative length
CallNewQuote ==
    /\ spc = "new"
    /\ \E sym \in SerialSymbols, bars \in -1..MaxBars :
        /\ arg' = [sym |-> sym, bars |-> bars]
        /\ res' = IF bars < 0 THEN Panic ELSE One(NewQuote(sym, bars), FALSE)
    /\ spc' = "new.done"
    /\ UNCHANGED <<q, qs, indent, text, doc>>
    /\ UNCHANGED <<fvars, wvars, bvars, mvars, yvars, xvars>>

\* a serializer of a Record writes its text
WriteText(from, to, written) ==
    /\ spc = from
    /\ spc' = to
    /\ text' = written
    /\ UNCHANGED <<q, qs, indent, doc, arg, res>>
    /\ UNCHANGED <<fvars, wvars, bvars, mvars, yvars, xvars>>

CallQuoteCSV        == WriteText("quote", "quote.csv", QuoteCSV(q))
CallQuoteAmibroker  == WriteText("quote", "quote.amibroker", QuoteAmibroker(q))
CallQuoteHighstock  == WriteText("quote", "quote.highstock", QuoteHighstock(q))
CallQuotesCSV       == WriteText("quotes", "quotes.csv", QuotesCSV(qs))
CallQuotesAmibroker == WriteText("quotes", "quotes.amibroker", QuotesAmibroker(qs))
CallQuotesHighstock == WriteText("quotes", "quotes.highstock", QuotesHighstock(qs))

CallQuoteJSON ==
    /\ spc = "quote"
    /\ spc' = "quote.json"
    /\ \E ind \in BOOLEAN : indent' = ind /\ doc' = QuoteJSON(q, ind)
    /\ UNCHANGED <<q, qs, text, arg, res>>
    /\ UNCHANGED <<fvars, wvars, bvars, mvars, yvars, xvars>>

CallQuotesJSON ==
    /\ spc = "quotes"
    /\ spc' = "quotes.json"
    /\ \E ind \in BOOLEAN : indent' = ind /\ doc' = QuotesJSON(qs, ind)
    /\ UNCHANGED <<q, qs, text, arg, res>>
    /\ UNCHANGED <<fvars, wvars, bvars, mvars, yvars, xvars>>

\* a parser returns
Parsed(from, to, sym, outcome) ==
    /\ spc = from
    /\ spc' = to
    /\ arg' = [sym |-> sym, bars |-> 0]
    /\ res' = outcome
    /\ UNCHANGED <<q, qs, indent, text, doc>>
    /\ UNCHANGED <<fvars, wvars, bvars, mvars, yvars, xvars>>

\* NewQuoteFromCSV on the text Quote.CSV wrote, under the symbol of the Record
CallNewQuoteFromCSVBack ==
    Parsed("quote.csv", "quote.csv.read", q.Symbol, One(NewQuoteFromCSV(q.Symbol, text), FALSE))

\* NewQuoteFromCSV on a text
CallNewQuoteFromCSV ==
    \E sym \in {Spy, BtC} :
        Parsed("csv", "csv.read", sym, One(NewQuoteFromCSV(sym, text), FALSE))

\* NewQuotesFromCSV on the text Quotes.CSV wrote
CallNewQuotesFromCSVBack ==
    /\ spc = "quotes.csv"
    /\ \E ord \in KeyOrders(Split(text, NL)) :
        Parsed("quotes.csv", "quotes.csv.read", <<>>, NewQuotesFromCSV(text, ord))

\* NewQuotesFromCSV on a text
CallNewQuotesFromCSV ==
    /\ spc = "quotescsv"
    /\ \E ord \in KeyOrders(Split(text, NL)) :
        Parsed("quotescsv", "quotescsv.read", <<>>, NewQuotesFromCSV(text, ord))

CallNewQuoteFromJSONBack  == Parsed("quote.json", "quote.json.read", <<>>, NewQuoteFromJSON(doc))
CallNewQuoteFromJSON      == Parsed("json", "json.read", <<>>, NewQuoteFromJSON(doc))
CallNewQuotesFromJSONBack == Parsed("quotes.json", "quotes.json.read", <<>>, NewQuotesFromJSON(doc))
CallNewQuotesFromJSON     == Parsed("quotesjson", "quotesjson.read", <<>>, NewQuotesFromJSON(doc))

SerialNext ==
    \/ CallNewQuote
    \/ CallQuoteCSV
    \/ CallQuoteAmibroker
    \/ CallQuoteHighstock
    \/ CallQuoteJSON
    \/ CallQuotesCSV
    \/ CallQuotesAmibroker
    \/ CallQuotesHighstock
    \/ CallQuotesJSON
    \/ CallNewQuoteFromCSVBack
    \/ CallNewQuoteFromCSV
    \/ CallNewQuotesFromCSVBack
    \/ CallNewQuotesFromCSV
    \/ CallNewQuoteFromJSONBack
    \/ CallNewQuoteFromJSON
    \/ CallNewQuotesFromJSONBack
    \/ CallNewQuotesFromJSON

SpecSerial == SerialInit /\ [][SerialNext]_vars

-----------------------------------------------------------------------------
(* Claims about the constructor, the serializers and the parsers, checked   *)
(* under SpecSerial                                                        *)

\* two Records with the same symbol, dates and five numeric sequences
SameData(a, b) ==
    /\ a.Symbol = b.Symbol
    /\ a.Date = b.Date
    /\ a.Open = b.Open
    /\ a.High = b.High
    /\ a.Low = b.Low
    /\ a.Close = b.Close
    /\ a.Volume = b.Volume

ParserReturned ==
    spc \in {"csv.read", "quote.csv.read", "quotescsv.read", "quotes.csv.read",
             "json.read", "quote.json.read", "quotesjson.read", "quotes.json.read"}

\* C2: NewQuote(symbol, n) returns six sequences of length n, and whatever the
\* CSV and JSON parsers return is an error or Records whose six sequences have
\* one length.
C2_NoMismatchedRecord ==
    /\ (spc = "new.done" /\ arg.bars >= 0) =>
          /\ res.out = "returned"
          /\ SameLengths(res.q)
          /\ Len(res.q.Date) = arg.bars
    /\ (ParserReturned /\ res.out = "returned") =>
          res.err \/ (SameLengths(res.q) /\ \A i \in 1..Len(res.qs) : SameLengths(res.qs[i]))

\* the lines of a text after its header; the newline that ends the text does
\* not start another line
DataLineCount(csv) ==
    LET tmp == Split(csv, NL)
    IN  IF Len(tmp) > 1 /\ tmp[Len(tmp)] = <<>> THEN Len(tmp) - 2 ELSE Len(tmp) - 1

\* C5: NewQuoteFromCSV on header, one well-formed line and a newline returns
\* exactly one bar with the values of that line; in general it returns as many
\* bars as the text has data lines.
C5_OneBarPerDataLine ==
    spc = "csv.read" =>
        /\ text = TextOf(QuoteHeader, <<Line1>>, TRUE) =>
              SameData(res.q, MakeQuote(arg.sym, 0, <<Bar1>>))
        /\ Len(res.q.Close) = DataLineCount(text)

\* dates on a whole minute and values that have no more decimals than the
\* symbol is written with
Representable(r) ==
    /\ \A i \in 1..Len(r.Date) : r.Date[i] % 60 = 0
    /\ \A f \in {"Open", "High", "Low", "Close", "Volume"} :
          \A i \in 1..Len(r[f]) :
              IsFinite(r[f][i]) /\ RoundTo(r[f][i], getPrecision(r.Symbol)) = r[f][i]

\* C6: NewQuoteFromCSV(q.Symbol, q.CSV()) returns q for every representable q,
\* and NewQuotesFromCSV(qs.CSV()) completes and returns the Records of qs for
\* every qs of representable Records with distinct symbols.
C6_CSVRoundTrip ==
    /\ (spc = "quote.csv.read" /\ Representable(q)) =>
          res.out = "returned" /\ SameData(res.q, q)
    /\ (/\ spc = "quotes.csv.read"
        /\ \A i \in 1..Len(qs) : Representable(qs[i])
        /\ \A i, j \in 1..Len(qs) : i # j => qs[i].Symbol # qs[j].Symbol) =>
          /\ res.out = "returned"
          /\ Len(res.qs) = Len(qs)
          /\ \A i \in 1..Len(qs) : \E j \in 1..Len(res.qs) : SameData(res.qs[j], qs[i])

\* the lines of the text whose leading column is sym, in file order
RowsOf(tmp, sym) ==
    SelectSeq([i \in 1..(Len(tmp) - 1) |-> i + 1], LAMBDA row : SymbolOfRow(tmp, row) = sym)

\* C7: a Record NewQuotesFromCSV returns holds exactly the rows whose leading
\* column is its symbol, in file order, and there is one Record per symbol.
C7_GroupedBySymbol ==
    (spc \in {"quotescsv.read", "quotes.csv.read"} /\ res.out = "returned") =>
        LET tmp == Split(text, NL)
        IN  /\ {res.qs[i].Symbol : i \in 1..Len(res.qs)} = IndexKeys(tmp)
            /\ Len(res.qs) = Cardinality(IndexKeys(tmp))
            /\ \A i \in 1..Len(res.qs) :
                  LET rows == RowsOf(tmp, res.qs[i].Symbol)
                      cell(bar, col) == Split(tmp[rows[bar]], Comma)[col]
                  IN  /\ Len(res.qs[i].Close) = Len(rows)
                      /\ \A bar \in 1..Len(rows) :
                            /\ res.qs[i].Date[bar]   = ParseMinute(cell(bar, 2))
                            /\ res.qs[i].Open[bar]   = ParseFloat(cell(bar, 3))
                            /\ res.qs[i].High[bar]   = ParseFloat(cell(bar, 4))
                            /\ res.qs[i].Low[bar]    = ParseFloat(cell(bar, 5))
                            /\ res.qs[i].Close[bar]  = ParseFloat(cell(bar, 6))
                            /\ res.qs[i].Volume[bar] = ParseFloat(cell(bar, 7))

\* C8: NewQuoteFromJSON(q.JSON(indent)) returns no error and the data of q, and
\* NewQuotesFromJSON(qs.JSON(indent)) the Records of qs in order, for both
\* values of indent.
C8_JSONRoundTrip ==
    /\ spc = "quote.json.read" =>
          res.out = "returned" /\ ~res.err /\ SameData(res.q, q)
    /\ spc = "quotes.json.read" =>
          /\ res.out = "returned"
          /\ ~res.err
          /\ Len(res.qs) = Len(qs)
          /\ \A i \in 1..Len(qs) : SameData(res.qs[i], qs[i])

\* the symbol has the letters of BTC, ETH or USD next to each other, each in
\* either case
HasWord(sym, small, capital) ==
    \E i \in 1..(Len(sym) - 2) :
        \A j \in 0..2 : sym[i + j] = Ch(small[j + 1]) \/ sym[i + j] = Ch(capital[j + 1])

CryptoLike(sym) ==
    \/ HasWord(sym, <<"b", "t", "c">>, <<"B", "T", "C">>)
    \/ HasWord(sym, <<"e", "t", "h">>, <<"E", "T", "H">>)
    \/ HasWord(sym, <<"u", "s", "d">>, <<"U", "S", "D">>)

\* the decimals of the numbers of a text, in the order they are written
DecimalsIn(txt) ==
    LET nums == SelectSeq(txt, LAMBDA tok : tok.k = "num")
    IN  [i \in 1..Len(nums) |-> nums[i].p]

\* the decimals the five numbers of every bar of every Record are to be
\* written with: 8 or 2 by the symbol of the Record; NaN and +Inf have none
DecimalsOf(r) ==
    Concat([bar \in 1..Len(r.Close) |->
        [f \in 1..5 |->
            LET v == <<r.Open, r.High, r.Low, r.Close, r.Volume>>[f][bar]
            IN  IF ~IsFinite(v) THEN 0 ELSE IF CryptoLike(r.Symbol) THEN 8 ELSE 2]])

\* C9: the six text serializers write the five numbers of every bar with 8
\* decimals when the symbol of the bar's Record has BTC, ETH or USD in any
\* letter case and with 2 otherwise, whatever the Precision field holds and
\* for every Record of a collection by its own symbol.
C9_PrecisionBySymbol ==
    /\ spc \in {"quote.csv", "quote.amibroker", "quote.highstock"} =>
          DecimalsIn(text) = DecimalsOf(q)
    /\ spc \in {"quotes.csv", "quotes.amibroker", "quotes.highstock"} =>
          DecimalsIn(text) = Concat([i \in 1..Len(qs) |-> DecimalsOf(qs[i])])

\* C9 witness: a collection text with a Record written with 2 decimals and one
\* written with 8, and a Record text whose Precision field disagrees with it
C9_WitnessQuotes ==
    /\ spc = "quotes.csv"
    /\ Len(qs) = 2
    /\ qs[1].Symbol = Spy /\ Len(qs[1].Close) > 0
    /\ qs[2].Symbol = BtC /\ Len(qs[2].Close) > 0
    /\ \E i, j \in 1..Len(text) :
          text[i].k = "num" /\ text[i].p = 2 /\ text[j].k = "num" /\ text[j].p = 8

\* number of tokens tok among the first n of a text
Count(txt, tok, n) == Cardinality({i \in 1..n : txt[i] = tok})

\* every closing bracket closes an opening one and none stays open
Balanced(txt) ==
    /\ \A n \in 1..Len(txt) : Count(txt, Ch("]"), n) <= Count(txt, Ch("["), n)
    /\ Count(txt, Ch("]"), Len(txt)) = Count(txt, Ch("["), Len(txt))

\* no comma is followed, newlines aside, by a closing bracket or brace
NoCommaBeforeClose(txt) ==
    \A i \in 1..Len(txt) :
        txt[i] = Comma =>
            \E j \in (i + 1)..Len(txt) :
                /\ txt[j] \notin {NL, Ch("]"), Ch("}")}
                /\ \A m \in (i + 1)..(j - 1) : txt[m] = NL

\* C10: Quote.Highstock writes one bracketed list of tuples with a comma after
\* every tuple but the last; Quotes.Highstock writes for every Record, those
\* without bars too, one key, one opening and one closing bracket, brackets
\* balanced, no comma after the last tuple or the last Record.
C10_HighstockWellFormed ==
    /\ spc = "quote.highstock" =>
          /\ Balanced(text)
          /\ NoCommaBeforeClose(text)
          /\ Count(text, Ch("["), Len(text)) = 1 + Len(q.Close)
    /\ spc = "quotes.highstock" =>
          /\ Balanced(text)
          /\ NoCommaBeforeClose(text)
          /\ Count(text, Ch(":"), Len(text)) = Len(qs)
          /\ Count(text, Ch("["), Len(text))
                = Len(qs) + Len(Concat([i \in 1..Len(qs) |-> qs[i].Close]))

-----------------------------------------------------------------------------
(* The Write methods: the filename they hand to os.WriteFile *)

DotCsv  == Str(<<".", "c", "s", "v">>)
DotJson == Str(<<".", "j", "s", "o", "n">>)
\* the words "quote" and "quotes" of the default names
QuoteName  == <<Word("quote")>>
QuotesName == <<Word("quotes")>>

\* the filename arguments: none, and a name of the caller
OutTxt == Str(<<"o", ".", "t">>)
FileNames == {<<>>, OutTxt}

\* Quote.WriteCSV and Quote.WriteAmibroker
QuoteCSVFileName(r, f) ==
    IF f = <<>>
    THEN IF r.Symbol # <<>> THEN r.Symbol \o DotCsv ELSE QuoteName \o DotCsv
    ELSE f

\* Quote.WriteHighstock
QuoteHighstockFileName(r, f) ==
    IF f = <<>>
    THEN IF r.Symbol # <<>> THEN r.Symbol \o DotJson ELSE QuoteName \o DotJson
    ELSE f

\* Quote.WriteJSON: the symbol is not tested
QuoteJSONFileName(r, f) == IF f = <<>> THEN r.Symbol \o DotJson ELSE f

\* Quotes.WriteCSV and Quotes.WriteAmibroker
QuotesCSVFileName(f) == IF f = <<>> THEN QuotesName \o DotCsv ELSE f

\* Quotes.WriteJSON and Quotes.WriteHighstock
QuotesJSONFileName(f) == IF f = <<>> THEN QuotesName \o DotJson ELSE f

\* os.WriteFile(filename, content, 0644) at the end of a Write method
WriteFile(from, method, f, name, content) ==
    /\ spc' = from \o ".written"
    /\ filename' = f
    /\ file' = [method |-> method, name |-> name, content |-> content]
    /\ UNCHANGED <<q, qs, indent, text, doc, arg, res>>
    /\ UNCHANGED <<fvars, bvars, mvars, yvars, xvars>>

CallQuoteWriteCSV ==
    /\ spc = "quote"
    /\ \E f \in FileNames :
        WriteFile("quote", "Quote.WriteCSV", f, QuoteCSVFileName(q, f), QuoteCSV(q))

CallQuoteWriteAmibroker ==
    /\ spc = "quote"
    /\ \E f \in FileNames :
        WriteFile("quote", "Quote.WriteAmibroker", f, QuoteCSVFileName(q, f),
                  QuoteAmibroker(q))

CallQuoteWriteHighstock ==
    /\ spc = "quote"
    /\ \E f \in FileNames :
        WriteFile("quote", "Quote.WriteHighstock", f, QuoteHighstockFileName(q, f),
                  QuoteHighstock(q))

CallQuoteWriteJSON ==
    /\ spc = "quote"
    /\ \E f \in FileNames, ind \in BOOLEAN :
        WriteFile("quote", "Quote.WriteJSON", f, QuoteJSONFileName(q, f), QuoteJSON(q, ind))

CallQuotesWriteCSV ==
    /\ spc = "quotes"
    /\ \E f \in FileNames :
        WriteFile("quotes", "Quotes.WriteCSV", f, QuotesCSVFileName(f), QuotesCSV(qs))

CallQuotesWriteAmibroker ==
    /\ spc = "quotes"
    /\ \E f \in FileNames :
        WriteFile("quotes", "Quotes.WriteAmibroker", f, QuotesCSVFileName(f),
                  QuotesAmibroker(qs))

CallQuotesWriteJSON ==
    /\ spc = "quotes"
    /\ \E f \in FileNames, ind \in BOOLEAN :
        WriteFile("quotes", "Quotes.WriteJSON", f, QuotesJSONFileName(f), QuotesJSON(qs, ind))

CallQuotesWriteHighstock ==
    /\ spc = "quotes"
    /\ \E f \in FileNames :
        WriteFile("quotes", "Quotes.WriteHighstock", f, QuotesJSONFileName(f),
                  QuotesHighstock(qs))

WriteNext ==
    \/ CallQuoteWriteCSV
    \/ CallQuoteWriteAmibroker
    \/ CallQuoteWriteHighstock
    \/ CallQuoteWriteJSON
    \/ CallQuotesWriteCSV
    \/ CallQuotesWriteAmibroker
    \/ CallQuotesWriteJSON
    \/ CallQuotesWriteHighstock

\* a Record or a collection, and no call made yet
WriteInit ==
    /\ SerialInit
    /\ spc \in {"quote", "quotes"}

SpecWrite == WriteInit /\ [][WriteNext]_vars

\* the extension the method is documented to use
CsvMethods  == {"Quote.WriteCSV", "Quote.WriteAmibroker", "Quotes.WriteCSV",
                "Quotes.WriteAmibroker"}
ExtensionOf(method) == IF method \in CsvMethods THEN DotCsv ELSE DotJson

\* C11: a Write method called with an empty filename writes <symbol>.csv or
\* <symbol>.json for a Record with a symbol, quote.csv or quote.json for a
\* Record without one, quotes.csv or quotes.json for a collection; a filename
\* that is not empty is used unchanged.
C11_DefaultFilenames ==
    file.method # "none" =>
        IF filename # <<>> THEN file.name = filename
        ELSE IF spc = "quotes.written" THEN file.name = QuotesName \o ExtensionOf(file.method)
        ELSE IF q.Symbol # <<>> THEN file.name = q.Symbol \o ExtensionOf(file.method)
        ELSE file.name = QuoteName \o ExtensionOf(file.method)

-----------------------------------------------------------------------------
(* The fetch specification *)

SerialIdle ==
    /\ spc = "off"
    /\ q = NoQuote
    /\ qs = <<>>
    /\ indent = FALSE
    /\ text = <<>>
    /\ doc = EmptyDoc
    /\ arg = NoArg
    /\ res = NoResult

FetchInit ==
    /\ FetchIdle /\ SerialIdle /\ WriteIdle /\ BatchIdle /\ MarketIdle /\ SymbolsIdle
    /\ ExtraIdle

SpecFetch == FetchInit /\ [][FetchNext]_vars

-----------------------------------------------------------------------------
(* Batch fetches: NewQuotesFrom...Syms *)

\* every outcome NewQuoteFromCoinbase can have from the window [sB, eB] on,
\* with acc accumulated so far: the page loop, one response per request
RECURSIVE CoinbaseOutcomes(_, _, _, _, _, _)
CoinbaseOutcomes(sym, sB, eB, eReq, stp, acc) ==
    IF ~(sB < eReq) THEN {Returned(acc, FALSE)}
    ELSE UNION {IF ~r.transport
                THEN {Returned(NewQuote(<<>>, 0), TRUE)}
                ELSE CoinbaseOutcomes(sym, eB + stp, (eB + stp) + maxBars * stp, eReq, stp,
                                      AppendQuote(acc, CoinbaseFill(sym, r.bars)))
                : r \in {x \in CoinbaseResponses(sB, eB, stp) : Len(x.bars) <= 1}}

\* the range and period every fetch of a batch is made with: one daily window
BatchStart == 0
BatchEnd   == Granularity(Daily)

\* the outcomes the single-symbol fetch of a batch function can have; the
\* responses are the ones with at most one bar
SingleOutcomes(name, sym) ==
    CASE name = "tiingoDaily" ->
            {tiingoDaily(sym, r) : r \in {x \in TiingoDailyResponses : Len(x.rows) <= 1}}
      [] name = "tiingoCrypto" ->
            {tiingoCrypto(sym, r) :
                r \in {x \in TiingoCryptoResponses :
                          \A i \in 1..Len(x.tickers) : Len(x.tickers[i]) <= 1}}
      [] name = "kraken" ->
            {NewQuoteFromKraken(sym, r) : r \in {x \in KrakenResponses : Len(x.rows) <= 1}}
      [] name = "huobi" ->
            {NewQuoteFromHuobi(sym, r) : r \in {x \in HuobiResponses : Len(x.rows) <= 1}}
      [] OTHER ->
            CoinbaseOutcomes(sym, BatchStart, Min(BatchStart + maxBars * Granularity(Daily),
                                                  BatchEnd),
                             BatchEnd, Granularity(Daily), EmptyQuote(sym))

\* NewQuotesFromTiingoSyms, NewQuotesFromTiingoCryptoSyms, NewQuotesFromCoinbaseSyms,
\* NewQuotesFromKrakenSyms, NewQuotesFromHuobiSyms, by the fetch they call
BatchFunctions == {"tiingoDaily", "tiingoCrypto", "coinbase", "kraken", "huobi"}

\* if err == nil { quotes = append(quotes, quote) } else { Log.Println(...) }
Collect(acc, o) == IF ~o.err THEN Append(acc, o.q) ELSE acc

\* quotes := Quotes{}
CallBatch ==
    /\ bpc = "idle"
    /\ \E name \in BatchFunctions, syms0 \in SeqsUpTo(FetchSymbols, MaxSymbols) :
        /\ batch' = name
        /\ symbols' = syms0
    /\ bpc' = "loop"
    /\ quotes' = <<>>
    /\ UNCHANGED <<attempts, batchRet>>
    /\ UNCHANGED <<fvars, svars, wvars, mvars, yvars, xvars>>

\* one iteration of the range loop: fetch the symbol, keep or log; a panic of
\* the fetch unwinds the batch function
BatchFetch ==
    /\ bpc = "loop"
    /\ Len(attempts) < Len(symbols)
    /\ LET sym == symbols[Len(attempts) + 1]
       IN  \E o \in SingleOutcomes(batch, sym) :
            /\ attempts' = Append(attempts, [symbol |-> sym, ret |-> o])
            /\ IF o.out = "panic"
               THEN /\ bpc' = "done"
                    /\ batchRet' = [out |-> "panic", quotes |-> <<>>, err |-> FALSE]
                    /\ UNCHANGED quotes
               ELSE /\ quotes' = Collect(quotes, o)
                    /\ UNCHANGED <<bpc, batchRet>>
    /\ UNCHANGED <<batch, symbols>>
    /\ UNCHANGED <<fvars, svars, wvars, mvars, yvars, xvars>>

\* return quotes, nil
BatchReturn ==
    /\ bpc = "loop"
    /\ ~(Len(attempts) < Len(symbols))
    /\ bpc' = "done"
    /\ batchRet' = [out |-> "returned", quotes |-> quotes, err |-> FALSE]
    /\ UNCHANGED <<batch, symbols, quotes, attempts>>
    /\ UNCHANGED <<fvars, svars, wvars, mvars, yvars, xvars>>

BatchNext ==
    \/ CallBatch
    \/ BatchFetch
    \/ BatchReturn

BatchInit ==
    /\ ExtraIdle
    /\ FetchIdle
    /\ SerialIdle
    /\ WriteIdle
    /\ MarketIdle
    /\ SymbolsIdle
    /\ bpc = "idle"
    /\ batch = "none"
    /\ symbols = <<>>
    /\ quotes = <<>>
    /\ attempts = <<>>
    /\ batchRet = NoBatchReturn

SpecBatch == BatchInit /\ [][BatchNext]_vars

\* the Records of the fetches that returned no error, in the order of the fetches
RECURSIVE Kept(_)
Kept(att) ==
    IF att = <<>> THEN <<>>
    ELSE (IF Head(att).ret.out = "returned" /\ ~Head(att).ret.err
          THEN <<Head(att).ret.q>> ELSE <<>>) \o Kept(Tail(att))

\* C12: a batch fetch attempts every symbol of the list in order, returns a
\* nil error whatever the outcomes of the single fetches, and returns exactly
\* the Records of the fetches that returned no error, in input order.
C12_BatchSkipsErrors ==
    /\ Len(attempts) <= Len(symbols)
    /\ \A i \in 1..Len(attempts) : attempts[i].symbol = symbols[i]
    /\ bpc = "done" =>
        /\ Len(attempts) = Len(symbols)
        /\ batchRet.out = "returned"
        /\ ~batchRet.err
        /\ batchRet.quotes = Kept(attempts)

-----------------------------------------------------------------------------
(* Claims about failures, paging and termination of the adapters, checked  *)
(* under SpecFetch                                                         *)

ZeroBars(r) ==
    /\ Len(r.Date) = 0
    /\ Len(r.Open) = 0
    /\ Len(r.High) = 0
    /\ Len(r.Low) = 0
    /\ Len(r.Close) = 0
    /\ Len(r.Volume) = 0

SingleAdapters == {"tiingoDaily", "tiingoCrypto", "kraken", "huobi"}

\* the call met a transport failure, or a status other than 200 where the
\* response carries one
FailedResponse ==
    \/ adapter \in SingleAdapters /\ ~lastResp.transport
    \/ adapter = "tiingoDaily" /\ lastResp.transport /\ lastResp.status # 200
    \/ adapter = "coinbase" /\ \E p \in 1..Len(pages) : ~pages[p].resp.transport

\* C13: a transport failure and a non-success HTTP status both yield a Record
\* with zero bars together with a non-nil error; no partially filled Record is
\* returned with an error.
C13_FailureYieldsError ==
    /\ (fpc = "done" /\ FailedResponse) =>
        /\ ret.out = "returned"
        /\ ret.err
        /\ ZeroBars(ret.q)
    /\ (ret.out = "returned" /\ ret.err) => ZeroBars(ret.q)

\* the response says that the symbol does not exist
MissingSymbol ==
    \/ adapter = "tiingoDaily" /\ lastResp.transport /\ lastResp.status = 404
    \/ /\ adapter = "kraken"
       /\ lastResp.transport
       /\ lastResp.body # "syntax"
       /\ ~(lastResp.result = "object" /\ lastResp.key = symbol)

\* C14: a missing-symbol response (404 of Tiingo daily, a valid JSON reply of
\* Kraken without the requested pair) makes the adapter return a zero-bar
\* Record to its caller; the program is not terminated.
C14_MissingSymbolReturns ==
    (fpc = "done" /\ MissingSymbol) => (ret.out = "returned" /\ ZeroBars(ret.q))

\* a body arrived that is not valid JSON of the expected shape
MalformedBody ==
    \/ /\ adapter \in SingleAdapters
       /\ lastResp.transport
       /\ lastResp.body \in {"syntax", "shape"}
    \/ /\ adapter = "coinbase"
       /\ \E p \in 1..Len(pages) :
            pages[p].resp.transport /\ pages[p].resp.body \in {"syntax", "shape"}

\* C15: a body that is not valid JSON of the expected shape, on any page for
\* Coinbase, yields a Record with zero bars, never a Record containing bars.
C15_MalformedYieldsEmpty ==
    (fpc = "done" /\ MalformedBody /\ ret.out = "returned") => ZeroBars(ret.q)

\* C16 as stated: the start of each Coinbase page request is the start of the
\* previous page request plus maxBars * granularity.
C16_StartAdvancesByWindow ==
    \A p \in 1..(Len(pages) - 1) : pages[p + 1].start = pages[p].start + maxBars * step

\* C16 as amended: the start of each Coinbase page request is the end of the
\* previous page request plus one granularity step, which is the start of the
\* previous request plus (maxBars + 1) * granularity.
C16_StartAdvancesByWindowAndStep ==
    \A p \in 1..(Len(pages) - 1) :
        /\ pages[p + 1].start = pages[p].end + step
        /\ pages[p + 1].start = pages[p].start + (maxBars + 1) * step

\* C16 witness: a fetch of two pages returned
C16_Witness ==
    /\ adapter = "coinbase"
    /\ fpc = "done"
    /\ ret.out = "returned"
    /\ Len(pages) = 2
    /\ pages[2].start > pages[1].start

\* C17: the Coinbase page loop terminates: a request is issued only while the
\* window start is before the requested end, none when start >= end, the
\* window start grows with every request, and every fetch comes to its end.
C17_CoinbaseLoopTerminates ==
    /\ [](\A p \in 1..Len(pages) : pages[p].start < endReq)
    /\ [](pages # <<>> => pages[1].start \in StartTimes)
    /\ [](\A p \in 1..(Len(pages) - 1) : pages[p].start < pages[p + 1].start)
    /\ ((fpc = "coinbase") ~> (fpc = "done"))

\* C17 witness: a range of two windows was fetched to its end
C17_Witness ==
    /\ adapter = "coinbase"
    /\ fpc = "done"
    /\ Len(pages) = 2
    /\ ~(startBar < endReq)

\* the page loop runs whenever it can: the adapter is one sequential function
SpecFetchFair == FetchInit /\ [][FetchNext]_vars /\ WF_vars(FetchNext)

-----------------------------------------------------------------------------
(* Strings of symbols: case, order, prefixes *)

\* strings.ToLower(s), over the letters of the model
ToLower(s) ==
    [i \in 1..Len(s) |->
        IF s[i].k = "ch" /\ \E j \in 1..Len(Upper) : Upper[j] = s[i].c
        THEN Ch(Lower[CHOOSE j \in 1..Len(Upper) : Upper[j] = s[i].c])
        ELSE s[i]]

\* the characters of the symbols in byte order: control characters, the
\* space, the hyphen, the capitals, the small letters
ByteOrder == <<"\r", " ", "-">> \o Upper \o Lower
ByteOf(tok) == CHOOSE j \in 1..Len(ByteOrder) : ByteOrder[j] = tok.c

\* a < b for Go strings: bytewise, a proper prefix is smaller
RECURSIVE StringLess(_, _)
StringLess(a, b) ==
    IF b = <<>> THEN FALSE
    ELSE IF a = <<>> THEN TRUE
    ELSE IF Head(a) = Head(b) THEN StringLess(Tail(a), Tail(b))
    ELSE ByteOf(Head(a)) < ByteOf(Head(b))

\* x put into the sorted sequence ss
RECURSIVE Insert(_, _)
Insert(x, ss) ==
    IF ss = <<>> THEN <<x>>
    ELSE IF StringLess(Head(ss), x) THEN <<Head(ss)>> \o Insert(x, Tail(ss))
    ELSE <<x>> \o ss

\* sort.Strings(ss)
RECURSIVE SortStrings(_)
SortStrings(ss) == IF ss = <<>> THEN <<>> ELSE Insert(Head(ss), SortStrings(Tail(ss)))

\* strings.HasPrefix and strings.HasSuffix
HasPrefix(s, pre) == Len(s) >= Len(pre) /\ SubSeq(s, 1, Len(pre)) = pre
HasSuffix(s, suf) == Len(s) >= Len(suf) /\ SubSeq(s, Len(s) - Len(suf) + 1, Len(s)) = suf

IsSpace(tok) == tok \in {Ch(" "), Ch("\r"), NL}

\* strings.TrimSpace(s)
RECURSIVE TrimSpace(_)
TrimSpace(s) ==
    IF s = <<>> THEN s
    ELSE IF IsSpace(Head(s)) THEN TrimSpace(Tail(s))
    ELSE IF IsSpace(s[Len(s)]) THEN TrimSpace(SubSeq(s, 1, Len(s) - 1))
    ELSE s

\* strings.Join(ss, sep) for a one-character sep
RECURSIVE Join(_, _)
Join(ss, sep) ==
    IF ss = <<>> THEN <<>>
    ELSE IF Len(ss) = 1 THEN ss[1]
    ELSE ss[1] \o <<sep>> \o Join(Tail(ss), sep)

-----------------------------------------------------------------------------
(* Market lists: ValidMarket, NewMarketList, NewMarketFile, NewEtfList *)

\* a market name of one word, and the names tiingo-<currency>
Mkt(w) == <<Word(w)>>
TiingoMkt(cur) == <<Word("tiingo"), Ch("-"), Word(cur)>>

ScreenerMarkets ==
    <<Mkt("nasdaq"), Mkt("amex"), Mkt("nyse"), Mkt("megacap"), Mkt("largecap"),
      Mkt("midcap"), Mkt("smallcap"), Mkt("microcap"), Mkt("nanocap"),
      Mkt("telecommunications"), Mkt("health_care"), Mkt("finance"), Mkt("real_estate"),
      Mkt("consumer_discretionary"), Mkt("consumer_staples"), Mkt("industrials"),
      Mkt("basic_materials"), Mkt("energy"), Mkt("utilities"), Mkt("technology")>>

\* var ValidMarkets = [...]string{...}, as a set of names
ValidMarkets ==
    {Mkt("etf"), Mkt("nasdaq100"), Mkt("coinbase"),
     TiingoMkt("btc"), TiingoMkt("eth"), TiingoMkt("usd")}
    \cup {ScreenerMarkets[i] : i \in 1..Len(ScreenerMarkets)}

\* mutant: the token is not looked at
ValidMarket_NoTokenCheck(mkt, tok) == mkt \in ValidMarkets

\* ValidMarket(market); tok: TIINGO_API_TOKEN is set
ValidMarket(mkt, tok) ==
    IF HasPrefix(mkt, <<Word("tiingo")>>) /\ ~tok THEN FALSE
    ELSE mkt \in ValidMarkets

\* the switch of NewMarketList; no case for "etf" leaves the url empty
MarketURL(mkt) ==
    IF mkt = Mkt("nasdaq100")
    THEN [host |-> "api.nasdaq.com", path |-> "api/quote/list-type/nasdaq100", of |-> <<>>]
    ELSE IF \E i \in 1..Len(ScreenerMarkets) : ScreenerMarkets[i] = mkt
    THEN [host |-> "api.nasdaq.com", path |-> "api/screener/stocks", of |-> mkt]
    ELSE IF mkt \in {TiingoMkt("btc"), TiingoMkt("eth"), TiingoMkt("usd")}
    THEN [host |-> "api.tiingo.com", path |-> "tiingo/crypto", of |-> <<>>]
    ELSE IF mkt = Mkt("coinbase")
    THEN [host |-> "api.exchange.coinbase.com", path |-> "products", of |-> <<>>]
    ELSE [host |-> "", path |-> "", of |-> <<>>]

\* the market names of the calls: valid ones of every kind, and names that
\* are not markets
NoMarket == <<>>
CallMarkets ==
    {Mkt("etf"), Mkt("nasdaq"), Mkt("nasdaq100"), Mkt("technology"), Mkt("coinbase"),
     TiingoMkt("btc"), TiingoMkt("usd"),
     NoMarket, Mkt("nosuch"), Mkt("tiingo"), TiingoMkt("xrp")}

\* one element of an upstream list: the symbol, the quote currency (Tiingo),
\* trading_disabled (Coinbase)
MarketTickers == {Bt, BtC, USD}
TiingoEntries   == [sym : MarketTickers, cur : {Mkt("btc"), Mkt("usd")}, disabled : {FALSE}]
CoinbaseEntries == [sym : MarketTickers, cur : {Mkt("usd")}, disabled : BOOLEAN]
NasdaqEntries   == [sym : MarketTickers, cur : {NoMarket}, disabled : {FALSE}]

EntriesOf(mkt) ==
    IF HasPrefix(mkt, <<Word("tiingo")>>) THEN TiingoEntries
    ELSE IF HasPrefix(mkt, <<Word("coinbase")>>) THEN CoinbaseEntries
    ELSE NasdaqEntries

\* what client.Do and the body bring: a request for the empty url fails in the
\* client; form "syntax" is not JSON, "shape" has a type error after which
\* encoding/json keeps what it decoded, "rows" is the documented shape
MarketResponses(mkt) ==
    {[transport |-> FALSE, form |-> "syntax", entries |-> <<>>]}
    \cup (IF MarketURL(mkt).host = "" THEN {}
          ELSE {[transport |-> TRUE, form |-> "syntax", entries |-> <<>>]}
               \cup [transport : {TRUE}, form : {"shape", "rows"},
                     entries : SeqsUpTo(EntriesOf(mkt), MaxEntries)])

NoBody == [transport |-> FALSE, form |-> "none", entries |-> <<>>]

\* outcomes of a market-list call: returned, or the program exited (log.Fatalf)
Listed(fn, ss, e) == [fn |-> fn, out |-> "returned", symbols |-> ss, err |-> e]
Exited(fn)        == [fn |-> fn, out |-> "exit", symbols |-> <<>>, err |-> FALSE]
ListPanic(fn)     == [fn |-> fn, out |-> "panic", symbols |-> <<>>, err |-> FALSE]

\* what json.Unmarshal stored
Decoded(body) == IF body.form = "syntax" THEN <<>> ELSE body.entries

SymsOf(es) == [i \in 1..Len(es) |-> es[i].sym]

\* getTiingoCryptoMarket: the tickers of the quote currency the market name
\* ends with, as they come
getTiingoCryptoMarket(fn, mkt, body) ==
    LET Keep(e) == \/ HasSuffix(mkt, <<Word("btc")>>) /\ e.cur = Mkt("btc")
                   \/ HasSuffix(mkt, <<Word("eth")>>) /\ e.cur = Mkt("eth")
                   \/ HasSuffix(mkt, <<Word("usd")>>) /\ e.cur = Mkt("usd")
    IN  Listed(fn, SymsOf(SelectSeq(Decoded(body), Keep)), body.form # "rows")

\* getNasdaqMarket and getNasdaq100Market: log.Fatalf on an error of
\* json.Unmarshal, else lowercased and sorted
getNasdaqMarket(fn, mkt, body) ==
    IF body.form # "rows" THEN Exited(fn)
    ELSE LET ss == SymsOf(body.entries)
         IN  Listed(fn, SortStrings([i \in 1..Len(ss) |-> ToLower(ss[i])]), FALSE)

\* getCoinbaseMarket: the ids of the products that trade, sorted
getCoinbaseMarket(fn, mkt, body) ==
    LET Trades(e) == ~e.disabled
    IN  Listed(fn, SortStrings(SymsOf(SelectSeq(Decoded(body), Trades))), body.form # "rows")

\* NewMarketList(market) with the response r to its one request
NewMarketList(fn, mkt, tok, r) ==
    IF ~ValidMarket(mkt, tok) THEN Listed(fn, <<>>, TRUE)
    ELSE IF ~r.transport THEN Listed(fn, <<>>, TRUE)
    ELSE IF HasPrefix(mkt, <<Word("tiingo")>>) THEN getTiingoCryptoMarket(fn, mkt, r)
    ELSE IF HasPrefix(mkt, <<Word("coinbase")>>) THEN getCoinbaseMarket(fn, mkt, r)
    ELSE getNasdaqMarket(fn, mkt, r)

\* the requests NewMarketList issues
RequestsOf(mkt, tok) == IF ValidMarket(mkt, tok) THEN <<MarketURL(mkt)>> ELSE <<>>

\* one line of otherlisted.txt: the number of columns, the symbol in column
\* 0, the ETF flag in column 4, the test-issue flag in column 6
EtfLines == [sym : {BtC, USD}, ncols : {1, 6, 8}, etf : {"Y", "N"}, test : {"N", "Y"}]

\* what getAnonFTP brings: an error, or the lines of the file
FtpResponses ==
    {[transport |-> FALSE, form |-> "syntax", entries |-> <<>>]}
    \cup [transport : {TRUE}, form : {"rows"}, entries : SeqsUpTo(EtfLines, MaxEntries)]

\* NewEtfList: len(cols) > 5 admits a line of six columns, whose cols[6] is
\* out of range
NewEtfList(r) ==
    IF ~r.transport THEN Listed("NewEtfList", <<>>, TRUE)
    ELSE IF \E i \in 1..Len(r.entries) : r.entries[i].ncols = 6 /\ r.entries[i].etf = "Y"
    THEN ListPanic("NewEtfList")
    ELSE LET IsEtf(e) == e.ncols > 5 /\ e.etf = "Y" /\ e.test = "N"
             ss == SymsOf(SelectSeq(r.entries, IsEtf))
         IN  Listed("NewEtfList", SortStrings([i \in 1..Len(ss) |-> ToLower(ss[i])]), FALSE)

DotTxt == Str(<<".", "t", "x", "t">>)

\* NewMarketList(market)
CallNewMarketList ==
    /\ mpc = "idle"
    /\ \E mkt \in CallMarkets, tok \in BOOLEAN :
        /\ market' = mkt
        /\ token' = tok
        /\ requests' = RequestsOf(mkt, tok)
        /\ IF ~ValidMarket(mkt, tok)
           THEN /\ rawdata' = NoBody
                /\ list' = NewMarketList("NewMarketList", mkt, tok, NoBody)
           ELSE \E r \in MarketResponses(mkt) :
                /\ rawdata' = r
                /\ list' = NewMarketList("NewMarketList", mkt, tok, r)
    /\ mpc' = "done"
    /\ UNCHANGED <<fvars, svars, wvars, bvars, yvars, xvars>>

\* NewMarketFile(market, filename): validate, default the name, list, trim,
\* join, write
CallNewMarketFile ==
    /\ mpc = "idle"
    /\ \E mkt \in CallMarkets, tok \in BOOLEAN, f \in FileNames :
        /\ market' = mkt
        /\ token' = tok
        /\ filename' = f
        /\ requests' = RequestsOf(mkt, tok)
        /\ IF ~ValidMarket(mkt, tok)
           THEN /\ rawdata' = NoBody
                /\ list' = Listed("NewMarketFile", <<>>, TRUE)
                /\ UNCHANGED file
           ELSE \E r \in MarketResponses(mkt) :
                LET got == NewMarketList("NewMarketFile", mkt, tok, r)
                    name == IF f = <<>> THEN mkt \o DotTxt ELSE f
                IN  /\ rawdata' = r
                    /\ list' = got
                    /\ IF got.out = "returned" /\ ~got.err
                       THEN file' = [method |-> "NewMarketFile", name |-> name,
                                     content |->
                                        Join([i \in 1..Len(got.symbols) |->
                                                 TrimSpace(got.symbols[i])], NL)]
                       ELSE UNCHANGED file
    /\ mpc' = "done"
    /\ UNCHANGED <<fvars, svars, bvars, yvars, xvars>>

\* NewEtfList()
CallNewEtfList ==
    /\ mpc = "idle"
    /\ \E r \in FtpResponses :
        /\ rawdata' = r
        /\ list' = NewEtfList(r)
    /\ requests' = <<[host |-> "ftp.nasdaqtrader.com", path |-> "symboldirectory",
                      of |-> <<>>]>>
    /\ mpc' = "done"
    /\ UNCHANGED <<market, token>>
    /\ UNCHANGED <<fvars, svars, wvars, bvars, yvars, xvars>>

MarketNext ==
    \/ CallNewMarketList
    \/ CallNewMarketFile
    \/ CallNewEtfList

MarketInit ==
    /\ ExtraIdle
    /\ FetchIdle
    /\ SerialIdle
    /\ WriteIdle
    /\ BatchIdle
    /\ SymbolsIdle
    /\ mpc = "idle"
    /\ market = <<>>
    /\ token = FALSE
    /\ requests = <<>>
    /\ rawdata = NoBody
    /\ list = NoList

SpecMarket == MarketInit /\ [][MarketNext]_vars

\* the market name is refused: not in the list, or tiingo without a token
Refused == market \notin ValidMarkets \/ (HasPrefix(market, <<Word("tiingo")>>) /\ ~token)

\* C18: NewMarketList and NewMarketFile issue no network request and return
\* an error when the market is not a valid market, or starts with tiingo while
\* no TIINGO_API_TOKEN is set.
C18_InvalidMarketNoRequest ==
    (mpc = "done" /\ list.fn \in {"NewMarketList", "NewMarketFile"} /\ Refused) =>
        /\ requests = <<>>
        /\ list.out = "returned"
        /\ list.err
        /\ list.symbols = <<>>
        /\ file = NoFile

\* C18 witness: tiingo-btc was asked for with no token set, and so was a name
\* that is no market
C18_Witness ==
    /\ mpc = "done"
    /\ list.fn = "NewMarketFile"
    /\ market = TiingoMkt("btc")
    /\ ~token
    /\ requests = <<>>
    /\ list.err

AllLower(ss) == \A i \in 1..Len(ss) : ToLower(ss[i]) = ss[i]
Ascending(ss) == \A i \in 1..(Len(ss) - 1) : ~StringLess(ss[i + 1], ss[i])

\* C19: every list a market-list fetcher returns holds lowercase symbols in
\* ascending order, whatever case and order the upstream response uses.
C19_ListsLowerSorted ==
    (mpc = "done" /\ list.out = "returned" /\ ~list.err) =>
        (AllLower(list.symbols) /\ Ascending(list.symbols))

-----------------------------------------------------------------------------
(* NewSymbolsFromFile *)

\* the lines a symbols file is made of: empty, a carriage return alone (the
\* blank line of a file with CRLF line ends), symbols in small and mixed case
FileLineKinds == {<<>>, <<Ch("\r")>>, Bt, BtC, USD \o <<Ch("\r")>>}

\* the contents of the file, with and without a newline after the last line
FileContents ==
    {Join(ls, NL) \o tl : ls \in SeqsUpTo(FileLineKinds, MaxFileLines), tl \in {<<>>, <<NL>>}}

\* what os.ReadFile brings
FileReads == {[ok |-> FALSE, content |-> <<>>]} \cup [ok : {TRUE}, content : FileContents]

\* deleteEmpty(s)
deleteEmpty(ss) == LET NotEmpty(str) == str # <<>> IN SelectSeq(ss, NotEmpty)

\* NewSymbolsFromFile(filename), rd the outcome of os.ReadFile
NewSymbolsFromFile(rd) ==
    IF ~rd.ok THEN Listed("NewSymbolsFromFile", <<>>, TRUE)
    ELSE Listed("NewSymbolsFromFile", deleteEmpty(Split(ToLower(rd.content), NL)), FALSE)

CallNewSymbolsFromFile ==
    /\ ypc = "idle"
    /\ \E rd \in FileReads :
        /\ raw' = rd
        /\ syms' = NewSymbolsFromFile(rd)
    /\ ypc' = "done"
    /\ UNCHANGED <<fvars, svars, wvars, bvars, mvars, xvars>>

SymbolsNext == CallNewSymbolsFromFile

SymbolsInit ==
    /\ ExtraIdle
    /\ FetchIdle
    /\ SerialIdle
    /\ WriteIdle
    /\ BatchIdle
    /\ MarketIdle
    /\ ypc = "idle"
    /\ raw = [ok |-> FALSE, content |-> <<>>]
    /\ syms = NoList

SpecSymbols == SymbolsInit /\ [][SymbolsNext]_vars

\* a line or an entry with nothing to see in it
Blank(str) == TrimSpace(str) = <<>>

\* C20: NewSymbolsFromFile returns the lines of the file in file order, every
\* letter lowercased, with no blank entry; non-blank lines are neither dropped
\* nor reordered and duplicates are kept.
C20_SymbolsFromFile ==
    (ypc = "done" /\ raw.ok) =>
        LET lines == Split(raw.content, NL)
            NotBlank(str) == ~Blank(str)
        IN  /\ syms.out = "returned"
            /\ ~syms.err
            /\ \A i \in 1..Len(syms.symbols) : ~Blank(syms.symbols[i])
            /\ syms.symbols = SelectSeq([i \in 1..Len(lines) |-> ToLower(lines[i])], NotBlank)

-----------------------------------------------------------------------------
(* Windows of the Coinbase page requests *)

\* C27: every Coinbase page request asks for a window inside the requested
\* range: requested start <= window start <= window end <= requested end, on
\* the first page and on every later page.
C27_WindowsInsideRange ==
    \A p \in 1..Len(pages) :
        /\ pages[1].start <= pages[p].start
        /\ pages[p].start <= pages[p].end
        /\ pages[p].end <= endReq

-----------------------------------------------------------------------------
(* The rows NewQuoteFromCSV reads *)

\* every data row up to the one that fills the bar has six columns
ReadUpTo(tmp, bar) == \A row \in 2..(bar + 1) : Len(Split(tmp[row], Comma)) = 6

\* C22: NewQuoteFromCSV never returns an error and stops at the first data row
\* whose column count is not 6: the bar of that row and the bars of all later
\* rows keep the zero values of NewQuote, and every row before it is parsed
\* into the bar of the same position.
C22_StopsAtMalformedRow ==
    spc = "csv.read" =>
        LET tmp == Split(text, NL)
            cell(bar, col) == Split(tmp[bar + 1], Comma)[col]
        IN  /\ res.out = "returned"
            /\ ~res.err
            /\ res.q.Symbol = arg.sym
            /\ \A bar \in 1..Len(res.q.Date) :
                  IF ReadUpTo(tmp, bar)
                  THEN /\ res.q.Date[bar]   = ParseMinute(cell(bar, 1))
                       /\ res.q.Open[bar]   = ParseFloat(cell(bar, 2))
                       /\ res.q.High[bar]   = ParseFloat(cell(bar, 3))
                       /\ res.q.Low[bar]    = ParseFloat(cell(bar, 4))
                       /\ res.q.Close[bar]  = ParseFloat(cell(bar, 5))
                       /\ res.q.Volume[bar] = ParseFloat(cell(bar, 6))
                  ELSE /\ res.q.Date[bar]   = ZeroTime
                       /\ res.q.Open[bar]   = 0
                       /\ res.q.High[bar]   = 0
                       /\ res.q.Low[bar]    = 0
                       /\ res.q.Close[bar]  = 0
                       /\ res.q.Volume[bar] = 0

\* C22 witness: a row of five columns stands between two well-formed rows
C22_Witness ==
    /\ spc = "csv.read"
    /\ text = TextOf(QuoteHeader, <<Line1, LineShort, Line2>>, FALSE)
    /\ Len(res.q.Date) = 3
    /\ res.q.Open[1] = 1000
    /\ res.q.Open[3] = 0

-----------------------------------------------------------------------------
(* The order of the Records NewQuotesFromCSV returns *)

\* the leading columns of the rows up to `row`, each once, in the order in
\* which they first appear
RECURSIVE FirstAppearance(_, _)
FirstAppearance(tmp, row) ==
    IF row < 2 THEN <<>>
    ELSE LET before == FirstAppearance(tmp, row - 1)
         IN  IF \E i \in 1..Len(before) : before[i] = SymbolOfRow(tmp, row)
             THEN before
             ELSE Append(before, SymbolOfRow(tmp, row))

\* C28: NewQuotesFromCSV is deterministic: every call on the same text returns
\* the same Records in the same order, and that order is the order in which
\* the symbols first appear in the text.
C28_DeterministicOrder ==
    (spc \in {"quotescsv.read", "quotes.csv.read"} /\ res.out = "returned") =>
        LET tmp == Split(text, NL)
        IN  /\ [i \in 1..Len(res.qs) |-> res.qs[i].Symbol] = FirstAppearance(tmp, Len(tmp))
            /\ \A ord \in KeyOrders(tmp) : NewQuotesFromCSV(text, ord) = res

-----------------------------------------------------------------------------
(* The symbols of the Records of a batch *)

\* sub can be obtained from seq by leaving elements out
RECURSIVE IsSubsequence(_, _)
IsSubsequence(sub, seq) ==
    IF sub = <<>> THEN TRUE
    ELSE IF seq = <<>> THEN FALSE
    ELSE IF Head(sub) = Head(seq) THEN IsSubsequence(Tail(sub), Tail(seq))
    ELSE IsSubsequence(sub, Tail(seq))

\* C29: every Record of the collection a batch fetch returns carries the
\* symbol it was fetched for: the symbols of the result form a subsequence of
\* the input symbol list and no Record with an empty symbol is appended.
C29_BatchRecordsCarrySymbol ==
    /\ \A i \in 1..Len(quotes) : quotes[i].Symbol # <<>>
    /\ (bpc = "done" /\ batchRet.out = "returned") =>
        /\ \A i \in 1..Len(batchRet.quotes) : batchRet.quotes[i].Symbol # <<>>
        /\ IsSubsequence([i \in 1..Len(batchRet.quotes) |-> batchRet.quotes[i].Symbol],
                         symbols)

-----------------------------------------------------------------------------
(* NewQuoteFromCSVDateFormat next to NewQuoteFromCSV *)

\* the layouts "2006-01-02 15:04" and "2006-01-02"
MinuteLayout == <<Word("2006-01-02 15:04")>>
DayLayout    == <<Word("2006-01-02")>>

\* the formats handed to NewQuoteFromCSVDateFormat: empty, blank, two layouts
Formats == {<<>>, <<Ch(" ")>>, MinuteLayout, DayLayout}

\* time.Parse(layout, s), the error dropped
ParseTime(layout, s) ==
    IF layout = MinuteLayout THEN ParseMinute(s)
    ELSE IF layout = DayLayout /\ Len(s) = 1 /\ s[1].k = "day" THEN s[1].n * SecondsPerDay
    ELSE ZeroTime

\* NewQuoteFromCSVDateFormat: the Record is made with the empty symbol, a
\* blank format stands for the minute layout, and every row after the header
\* is indexed up to line[5] whatever its column count
NewQuoteFromCSVDateFormat(sym, csv, fmt) ==
    LET tmp     == Split(csv, NL)
        numrows == Len(tmp)
        layout  == IF Len(TrimSpace(fmt)) = 0 THEN MinuteLayout ELSE fmt
        line(bar) == Split(tmp[bar + 1], Comma)
    IN  IF \E row \in 2..numrows : Len(Split(tmp[row], Comma)) < 6
        THEN Panic
        ELSE One([Symbol    |-> <<>>,
                  Precision |-> 0,
                  Date      |-> [bar \in 1..(numrows - 1) |-> ParseTime(layout, line(bar)[1])],
                  Open      |-> [bar \in 1..(numrows - 1) |-> ParseFloat(line(bar)[2])],
                  High      |-> [bar \in 1..(numrows - 1) |-> ParseFloat(line(bar)[3])],
                  Low       |-> [bar \in 1..(numrows - 1) |-> ParseFloat(line(bar)[4])],
                  Close     |-> [bar \in 1..(numrows - 1) |-> ParseFloat(line(bar)[5])],
                  Volume    |-> [bar \in 1..(numrows - 1) |-> ParseFloat(line(bar)[6])]],
                 FALSE)

\* NewQuoteFromCSV(symbol, csv)
CallPlain ==
    /\ cpc = "idle"
    /\ \E sym \in {<<>>, Spy}, csv \in CSVTexts :
        /\ csym' = sym
        /\ ctext' = csv
        /\ plain' = One(NewQuoteFromCSV(sym, csv), FALSE)
    /\ cpc' = "plain"
    /\ UNCHANGED <<format, dated>>
    /\ UNCHANGED <<fvars, svars, wvars, bvars, mvars, yvars, pvars, lvars>>

\* NewQuoteFromCSVDateFormat(symbol, csv, format) on the same symbol and text
CallDated ==
    /\ cpc = "plain"
    /\ \E fmt \in Formats :
        /\ format' = fmt
        /\ dated' = NewQuoteFromCSVDateFormat(csym, ctext, fmt)
    /\ cpc' = "done"
    /\ UNCHANGED <<csym, ctext, plain>>
    /\ UNCHANGED <<fvars, svars, wvars, bvars, mvars, yvars, pvars, lvars>>

FormatNext ==
    \/ CallPlain
    \/ CallDated

FormatInit ==
    /\ FetchIdle
    /\ SerialIdle
    /\ WriteIdle
    /\ BatchIdle
    /\ MarketIdle
    /\ SymbolsIdle
    /\ FtpIdle
    /\ CliIdle
    /\ cpc = "idle"
    /\ csym = <<>>
    /\ ctext = <<>>
    /\ format = <<>>
    /\ plain = NoResult
    /\ dated = NoResult

SpecFormat == FormatInit /\ [][FormatNext]_vars

\* C30: NewQuoteFromCSVDateFormat called with an empty or blank format is
\* equivalent to NewQuoteFromCSV on the same symbol and text: both complete
\* and return Records with the same symbol, the same number of bars and the
\* same values.
C30_BlankFormatEquivalent ==
    (cpc = "done" /\ TrimSpace(format) = <<>>) =>
        /\ plain.out = "returned"
        /\ dated.out = "returned"
        /\ dated.err = plain.err
        /\ SameLengths(dated.q)
        /\ Len(dated.q.Date) = Len(plain.q.Date)
        /\ SameData(dated.q, plain.q)

-----------------------------------------------------------------------------
(* Market-list responses that cannot be parsed *)

\* the body of the response is not JSON of the expected shape
Unparsable == rawdata.transport /\ rawdata.form \in {"syntax", "shape"}

\* C26: a market-list response that cannot be parsed is never fatal to the
\* process: the market parser returns an empty symbol list and an error to
\* its caller, which returns them in turn.
C26_UnparsableListNotFatal ==
    (mpc = "done" /\ list.fn \in {"NewMarketList", "NewMarketFile"} /\ Unparsable) =>
        /\ list.out = "returned"
        /\ list.err
        /\ list.symbols = <<>>

-----------------------------------------------------------------------------
(* getAnonFTP, step by step *)

NotFetched == [out |-> "none", contents |-> FALSE, err |-> FALSE]

\* return contents, err / return contents, nil; contents tells whether bytes
\* of the file are returned
FtpReturned(c, e) == [out |-> "returned", contents |-> c, err |-> e]
FtpPanicked       == [out |-> "panic", contents |-> FALSE, err |-> FALSE]

\* a step was executed and went well or not
Did(name, ok) == Append(steps, [step |-> name, ok |-> ok])

\* a command whose reply is read and dropped: _, _, _ = conn.ReadResponse(..)
Ignored(from, to, name) ==
    /\ ppc = from
    /\ \E ok \in BOOLEAN : steps' = Did(name, ok)
    /\ ppc' = to
    /\ UNCHANGED fetched
    /\ UNCHANGED <<fvars, svars, wvars, bvars, mvars, yvars, cvars, lvars>>

\* net.DialTimeout of the control connection: the one step whose error is
\* returned before the transfer
FtpDial ==
    /\ ppc = "idle"
    /\ \E ok \in BOOLEAN :
        /\ steps' = Did("control connection", ok)
        /\ IF ok
           THEN ppc' = "greeting" /\ UNCHANGED fetched
           ELSE ppc' = "done" /\ fetched' = FtpReturned(FALSE, TRUE)
    /\ UNCHANGED <<fvars, svars, wvars, bvars, mvars, yvars, cvars, lvars>>

FtpGreeting == Ignored("greeting", "user", "greeting")
FtpUser     == Ignored("user", "pass", "login user")
FtpPass     == Ignored("pass", "cwd", "login password")
FtpCwd      == Ignored("cwd", "pasv", "change directory")

\* PASV: the error of the reply is dropped; message[start:end] panics when the
\* message has no parenthesised port (both indexes are -1)
FtpPasv ==
    /\ ppc = "pasv"
    /\ \E ok \in BOOLEAN :
        /\ steps' = Did("passive mode", ok)
        /\ IF ok
           THEN ppc' = "retr" /\ UNCHANGED fetched
           ELSE ppc' = "done" /\ fetched' = FtpPanicked
    /\ UNCHANGED <<fvars, svars, wvars, bvars, mvars, yvars, cvars, lvars>>

FtpRetr == Ignored("retr", "data", "retrieve")

\* net.DialTimeout of the data connection: on an error dconn is nil and
\* io.ReadAll(dconn) dereferences it
FtpData ==
    /\ ppc = "data"
    /\ \E ok \in BOOLEAN :
        /\ steps' = Did("data connection", ok)
        /\ IF ok
           THEN ppc' = "read" /\ UNCHANGED fetched
           ELSE ppc' = "done" /\ fetched' = FtpPanicked
    /\ UNCHANGED <<fvars, svars, wvars, bvars, mvars, yvars, cvars, lvars>>

\* io.ReadAll(dconn): its error is returned; then the closing reply is read
\* and dropped and the contents are returned with a nil error
FtpRead ==
    /\ ppc = "read"
    /\ \E ok \in BOOLEAN :
        /\ steps' = Did("read", ok)
        /\ fetched' = IF ok THEN FtpReturned(TRUE, FALSE) ELSE FtpReturned(TRUE, TRUE)
    /\ ppc' = "done"
    /\ UNCHANGED <<fvars, svars, wvars, bvars, mvars, yvars, cvars, lvars>>

FtpNext ==
    \/ FtpDial
    \/ FtpGreeting
    \/ FtpUser
    \/ FtpPass
    \/ FtpCwd
    \/ FtpPasv
    \/ FtpRetr
    \/ FtpData
    \/ FtpRead

FtpInit ==
    /\ FetchIdle
    /\ SerialIdle
    /\ WriteIdle
    /\ BatchIdle
    /\ MarketIdle
    /\ SymbolsIdle
    /\ FormatIdle
    /\ CliIdle
    /\ ppc = "idle"
    /\ steps = <<>>
    /\ fetched = NotFetched

SpecFtp == FtpInit /\ [][FtpNext]_vars

\* the steps the claim names
NamedSteps == {"control connection", "login user", "login password", "change directory",
               "passive mode", "data connection", "read"}

\* C25: in getAnonFTP any failing step (control connection, login, change
\* directory, passive-mode reply without a parenthesised port, data
\* connection, read) aborts the fetch with a non-nil error: no later step is
\* executed after a failed one, the call never panics, and no contents are
\* returned with a nil error after a failure.
C25_FtpFailureAborts ==
    /\ \A i \in 1..Len(steps) :
          (steps[i].step \in NamedSteps /\ ~steps[i].ok) => i = Len(steps)
    /\ fetched.out # "panic"
    /\ (ppc = "done" /\ \E i \in 1..Len(steps) : steps[i].step \in NamedSteps /\ ~steps[i].ok)
          => (fetched.out = "returned" /\ fetched.err)

-----------------------------------------------------------------------------
(* The command line program: main, setOutput, checkFlags, getSymbols,      *)
(* handleCommand, outputAll, outputIndividual                              *)

\* -log: a standard stream or a file path
LogNames == {"stdout", "q.log"}

\* the periods checkFlags admits for tiingo-crypto
CryptoPeriods == {"1m", "3m", "5m", "15m", "30m", "1h", "2h", "4h", "6h", "8h", "12h", "d"}

\* -source and -period, with the token of -token or TIINGO_API_TOKEN
CliSources ==
    {[source |-> "tiingo",        period |-> "d",  tok |-> TRUE],
     [source |-> "tiingo",        period |-> "1m", tok |-> TRUE],
     [source |-> "tiingo",        period |-> "d",  tok |-> FALSE],
     [source |-> "tiingo-crypto", period |-> "1m", tok |-> TRUE],
     [source |-> "tiingo-crypto", period |-> "1w", tok |-> TRUE],
     [source |-> "tiingo-crypto", period |-> "1m", tok |-> FALSE],
     [source |-> "coinbase",      period |-> "d",  tok |-> FALSE],
     [source |-> "yahoo",         period |-> "d",  tok |-> FALSE]}

\* -infile: none, a file name, a pattern
InFile    == Str(<<"s">>)
InPattern == Str(<<"s", "*">>)

\* the ways the symbols are supplied: arguments, -infile, -markets
CliInputs ==
    [infile : {<<>>}, markets : {<<>>},
     args : SeqsUpTo(FetchSymbols, MaxSymbols) \cup {<<Mkt("nasdaq")>>, <<Mkt("nasdaq"), Spy>>}]
    \cup [infile : {InFile, InPattern}, markets : {<<>>}, args : {<<>>}]
    \cup [infile : {<<>>}, args : {<<>>},
          markets : SeqsUpTo({Mkt("nasdaq"), Mkt("etf"), Mkt("nope")}, MaxSymbols) \ {<<>>}]

\* what os.ReadFile brings for a symbols file of the user
CliFileReads ==
    {[ok |-> FALSE, content |-> <<>>],
     [ok |-> TRUE, content |-> <<>>],
     [ok |-> TRUE, content |-> Bt \o <<NL>>],
     [ok |-> TRUE, content |-> Join(<<Spy, BtC>>, NL)]}

\* what filepath.Glob brings: a malformed pattern, or the files that match
GlobResults ==
    {[ok |-> FALSE, matches |-> <<>>]}
    \cup [ok : {TRUE}, matches : SeqsUpTo(CliFileReads, MaxSymbols)]

\* what is in <market>.csv when the download did not write it
OldFiles == {[ok |-> FALSE, content |-> <<>>], [ok |-> TRUE, content |-> Bt]}

\* checkFlags(flags): TRUE when it returns an error
checkFlags(fl) ==
    IF fl.source \notin {"tiingo", "tiingo-crypto", "coinbase"} THEN TRUE
    ELSE IF fl.source = "tiingo" /\ fl.period # "d" THEN TRUE
    ELSE IF fl.source = "tiingo" /\ ~fl.tok THEN TRUE
    ELSE IF fl.source = "tiingo-crypto" /\ fl.period \notin CryptoPeriods THEN TRUE
    ELSE IF fl.source = "tiingo-crypto" /\ ~fl.tok THEN TRUE
    ELSE FALSE

\* the variables of the other parts of the program
CliFrame == UNCHANGED <<fvars, svars, wvars, bvars, mvars, yvars, cvars, pvars>>

\* check(err): the error and the usage are printed and the process exits
Check(err, next) ==
    IF err THEN lpc' = "done" /\ status' = "error"
    ELSE lpc' = next /\ UNCHANGED status

\* a fetch or a Fatalf ended the process
Ended(how) == lpc' = "done" /\ status' = how

\* a download of a market list or of the bars of the symbol at index `at`
Download(kind, name, at, failed) == [kind |-> kind, of |-> name, at |-> at, failed |-> failed]

\* a file written for the market or the symbol at index `at`
Written(name, kind, at) == [name |-> name, kind |-> kind, at |-> at]

\* flag.Parse()
Main ==
    /\ lpc = "start"
    /\ \E src \in CliSources, lg \in LogNames, inp \in CliInputs, out \in FileNames,
          fmt \in {"csv", "json"}, all \in BOOLEAN :
        /\ flags' = [log |-> lg, source |-> src.source, period |-> src.period,
                     tok |-> src.tok, infile |-> inp.infile, markets |-> inp.markets,
                     outfile |-> out, format |-> fmt, all |-> all]
        /\ args' = inp.args
    /\ lpc' = "setOutput"
    /\ UNCHANGED <<sink, resolved, pos, collected, net, files, logs, status>>
    /\ CliFrame

\* setOutput(flags); check(err). The deferred f.Close() runs when setOutput
\* returns, after the file was installed as the output of quote.Log
SetOutput ==
    /\ lpc = "setOutput"
    /\ IF flags.log \in {"stdout", "stderr", "discard"}
       THEN /\ sink' = [dest |-> flags.log, opened |-> TRUE, open |-> TRUE]
            /\ Check(FALSE, "checkFlags")
       ELSE \E opened \in BOOLEAN :
            /\ sink' = [dest |-> flags.log, opened |-> opened, open |-> FALSE]
            /\ Check(~opened, "checkFlags")
    /\ UNCHANGED <<flags, args, resolved, pos, collected, net, files, logs>>
    /\ CliFrame

\* checkFlags(flags); check(err)
CheckFlags ==
    /\ lpc = "checkFlags"
    /\ Check(checkFlags(flags), "getSymbols")
    /\ UNCHANGED <<flags, args, sink, resolved, pos, collected, net, files, logs>>
    /\ CliFrame

\* the end of getSymbols: no symbols, or an outfile with several symbols and
\* without -all, is an error
Invalid(found) ==
    \/ Len(found) = 0
    \/ Len(found) > 1 /\ flags.outfile # <<>> /\ ~flags.all

\* symbols, err = getSymbols(flags, flag.Args()); check(err)
GetSymbolsReturn(found, err) ==
    /\ resolved' = found
    /\ Check(err, "handleCommand")

\* getSymbols, the branch of the arguments
GetSymbolsFromArgs ==
    /\ lpc = "getSymbols"
    /\ flags.infile = <<>>
    /\ flags.markets = <<>>
    /\ GetSymbolsReturn(args, Invalid(args))
    /\ UNCHANGED <<flags, args, sink, pos, collected, net, files, logs>>
    /\ CliFrame

\* getSymbols, the branch of -infile, with and without wildcard
GetSymbolsFromFile ==
    /\ lpc = "getSymbols"
    /\ flags.infile # <<>>
    /\ IF Contains(flags.infile, Str(<<"*">>)) \/ Contains(flags.infile, Str(<<"?">>))
       THEN \E glob \in GlobResults :
            LET lists   == [i \in 1..Len(glob.matches) |-> NewSymbolsFromFile(glob.matches[i])]
                found   == Concat([i \in 1..Len(lists) |-> lists[i].symbols])
            IN  /\ Len(found) <= MaxSymbols
                /\ IF ~glob.ok \/ glob.matches = <<>> \/ \E i \in 1..Len(lists) : lists[i].err
                   THEN GetSymbolsReturn(<<>>, TRUE)
                   ELSE GetSymbolsReturn(found, Invalid(found))
       ELSE \E rd \in CliFileReads :
            LET got == NewSymbolsFromFile(rd)
            IN  IF got.err THEN GetSymbolsReturn(got.symbols, TRUE)
                ELSE GetSymbolsReturn(got.symbols, Invalid(got.symbols))
    /\ UNCHANGED <<flags, args, sink, pos, collected, net, files, logs>>
    /\ CliFrame

\* NewMarketList or NewEtfList as NewMarketFile and NewEtfFile call them, on
\* the responses with at most one entry
ListOutcomes(cmd, tok) ==
    IF cmd = Mkt("etf")
    THEN {NewEtfList(r) : r \in {x \in FtpResponses : Len(x.entries) <= 1}}
    ELSE {NewMarketList("NewMarketFile", cmd, tok, r) :
             r \in {x \in MarketResponses(cmd) : Len(x.entries) <= 1}}

\* the content NewMarketFile and NewEtfFile write
ListContent(cmd, o) ==
    IF cmd = Mkt("etf") THEN Join(o.symbols, NL)
    ELSE Join([i \in 1..Len(o.symbols) |-> TrimSpace(o.symbols[i])], NL)

\* getSymbols, the branch of -markets, one market of the loop: validate,
\* download the list into <market>.csv, read the symbols back
GetSymbolsMarket ==
    /\ lpc = "getSymbols"
    /\ flags.infile = <<>>
    /\ flags.markets # <<>>
    /\ pos < Len(flags.markets)
    /\ LET cmd  == flags.markets[pos + 1]
           name == cmd \o DotCsv
       IN  IF ~ValidMarket(cmd, flags.tok)
           THEN /\ Check(TRUE, "getSymbols")
                /\ UNCHANGED <<resolved, pos, net, files>>
           ELSE \E o \in ListOutcomes(cmd, flags.tok), old \in OldFiles :
                /\ net' = Append(net, Download("market", cmd, pos + 1, o.out # "returned" \/ o.err))
                /\ IF o.out # "returned"
                   THEN /\ Ended(o.out)
                        /\ UNCHANGED <<resolved, pos, files>>
                   ELSE LET wrote == ~o.err
                            got   == NewSymbolsFromFile(
                                        IF wrote
                                        THEN [ok |-> TRUE, content |-> ListContent(cmd, o)]
                                        ELSE old)
                        IN  /\ files' = IF wrote
                                        THEN Append(files, Written(name, "market", pos + 1))
                                        ELSE files
                            /\ IF got.err
                               THEN /\ Check(TRUE, "getSymbols")
                                    /\ UNCHANGED <<resolved, pos>>
                               ELSE /\ resolved' = resolved \o got.symbols
                                    /\ pos' = pos + 1
                                    /\ UNCHANGED <<lpc, status>>
    /\ UNCHANGED <<flags, args, sink, collected, logs>>
    /\ CliFrame

\* getSymbols, the branch of -markets after the loop: return symbols, nil
GetSymbolsMarketsReturn ==
    /\ lpc = "getSymbols"
    /\ flags.infile = <<>>
    /\ flags.markets # <<>>
    /\ pos = Len(flags.markets)
    /\ pos' = 0
    /\ Check(FALSE, "handleCommand")
    /\ UNCHANGED <<flags, args, sink, resolved, collected, net, files, logs>>
    /\ CliFrame

\* handleCommand, one command of its loop: false with -markets or at the first
\* symbol that is no market, else the list is downloaded to the outfile; true
\* after the last one, and main exits
HandleCommand ==
    /\ lpc = "handleCommand"
    /\ IF flags.markets # <<>>
       THEN /\ lpc' = "output"
            /\ UNCHANGED <<pos, net, files, status>>
       ELSE IF pos = Len(resolved)
       THEN /\ Ended("exit")
            /\ UNCHANGED <<pos, net, files>>
       ELSE LET cmd == resolved[pos + 1]
                name == IF flags.outfile # <<>> THEN flags.outfile
                        ELSE cmd \o DotTxt
            IN  IF ~ValidMarket(cmd, flags.tok)
                THEN /\ lpc' = "output"
                     /\ pos' = 0
                     /\ UNCHANGED <<net, files, status>>
                ELSE \E o \in ListOutcomes(cmd, flags.tok) :
                     /\ net' = Append(net, Download("market", cmd, pos + 1,
                                                    o.out # "returned" \/ o.err))
                     /\ IF o.out # "returned"
                        THEN /\ Ended(o.out)
                             /\ UNCHANGED <<pos, files>>
                        ELSE /\ files' = IF ~o.err
                                         THEN Append(files, Written(name, "market", pos + 1))
                                         ELSE files
                             /\ pos' = pos + 1
                             /\ UNCHANGED <<lpc, status>>
    /\ UNCHANGED <<flags, args, sink, resolved, collected, logs>>
    /\ CliFrame

\* the fetch of the source: NewQuoteFromTiingo, NewQuoteFromTiingoCrypto,
\* NewQuoteFromCoinbase
FetchOf(source) ==
    IF source = "tiingo" THEN "tiingoDaily"
    ELSE IF source = "tiingo-crypto" THEN "tiingoCrypto"
    ELSE "coinbase"

\* the fetch did not bring the bars of the symbol
FetchFailed(sym, o) == o.out = "panic" \/ o.err

\* the paths of the adapters that return NewQuote("", 0) call Log.Printf first
Logged(sym, o) == o.out = "returned" /\ (o.err \/ o.q.Symbol # sym)

\* the message of a fetch reaches the sink when the sink is open
LogOf(sym, o) ==
    IF Logged(sym, o) THEN Append(logs, [of |-> sym, written |-> sink.open]) ELSE logs

\* the name the Write method of the format gives the file of one Record
QuoteFileName(r) ==
    IF flags.format = "csv" THEN QuoteCSVFileName(r, flags.outfile)
    ELSE IF flags.format = "json" THEN QuoteJSONFileName(r, flags.outfile)
    ELSE IF flags.format = "hs" THEN QuoteHighstockFileName(r, flags.outfile)
    ELSE QuoteCSVFileName(r, flags.outfile)

\* outputIndividual, one symbol of its loop: the error of the fetch is
\* dropped (q, _ = ...) and the Record that came back is written
OutputIndividual ==
    /\ lpc = "output"
    /\ ~flags.all
    /\ pos < Len(resolved)
    /\ LET sym == resolved[pos + 1]
       IN  \E o \in SingleOutcomes(FetchOf(flags.source), sym) :
            /\ net' = Append(net, Download("quote", sym, pos + 1, FetchFailed(sym, o)))
            /\ logs' = LogOf(sym, o)
            /\ IF o.out = "panic"
               THEN /\ Ended("panic")
                    /\ UNCHANGED <<pos, files>>
               ELSE /\ files' = Append(files, Written(QuoteFileName(o.q), "quote", pos + 1))
                    /\ pos' = pos + 1
                    /\ UNCHANGED <<lpc, status>>
    /\ UNCHANGED <<flags, args, sink, resolved, collected>>
    /\ CliFrame

\* outputIndividual returns nil and main returns
OutputIndividualReturn ==
    /\ lpc = "output"
    /\ ~flags.all
    /\ pos = Len(resolved)
    /\ Ended("returned")
    /\ UNCHANGED <<flags, args, sink, resolved, pos, collected, net, files, logs>>
    /\ CliFrame

\* outputAll, one symbol of the loop of the batch function it calls
OutputAllFetch ==
    /\ lpc = "output"
    /\ flags.all
    /\ pos < Len(resolved)
    /\ LET sym == resolved[pos + 1]
       IN  \E o \in SingleOutcomes(FetchOf(flags.source), sym) :
            /\ net' = Append(net, Download("quote", sym, pos + 1, FetchFailed(sym, o)))
            /\ logs' = LogOf(sym, o)
            /\ IF o.out = "panic"
               THEN /\ Ended("panic")
                    /\ UNCHANGED <<pos, collected>>
               ELSE /\ collected' = Collect(collected, o)
                    /\ pos' = pos + 1
                    /\ UNCHANGED <<lpc, status>>
    /\ UNCHANGED <<flags, args, sink, resolved, files>>
    /\ CliFrame

\* outputAll writes the collection to one file and main returns
OutputAllWrite ==
    /\ lpc = "output"
    /\ flags.all
    /\ pos = Len(resolved)
    /\ files' = Append(files,
                  Written(IF flags.format \in {"csv", "ami"}
                          THEN QuotesCSVFileName(flags.outfile)
                          ELSE QuotesJSONFileName(flags.outfile), "quotes", 0))
    /\ Ended("returned")
    /\ UNCHANGED <<flags, args, sink, resolved, pos, collected, net, logs>>
    /\ CliFrame

CliNext ==
    \/ Main
    \/ SetOutput
    \/ CheckFlags
    \/ GetSymbolsFromArgs
    \/ GetSymbolsFromFile
    \/ GetSymbolsMarket
    \/ GetSymbolsMarketsReturn
    \/ HandleCommand
    \/ OutputIndividual
    \/ OutputIndividualReturn
    \/ OutputAllFetch
    \/ OutputAllWrite

CliInit ==
    /\ FetchIdle
    /\ SerialIdle
    /\ WriteIdle
    /\ BatchIdle
    /\ MarketIdle
    /\ SymbolsIdle
    /\ FormatIdle
    /\ FtpIdle
    /\ lpc = "start"
    /\ flags = NoFlags
    /\ args = <<>>
    /\ sink = NoSink
    /\ resolved = <<>>
    /\ pos = 0
    /\ collected = <<>>
    /\ net = <<>>
    /\ files = <<>>
    /\ logs = <<>>
    /\ status = "none"

SpecCli == CliInit /\ [][CliNext]_vars

-----------------------------------------------------------------------------
(* Claims about the command line program, checked under SpecCli *)

\* an output filename, more than one resolved symbol, and no -all
Conflict == flags.outfile # <<>> /\ ~flags.all /\ Len(resolved) > 1

\* C21: an output filename given together with more than one resolved symbol
\* and without -all is reported as an error before any network activity,
\* whichever way the symbols were supplied: no market list or quote is
\* downloaded and no output file is written.
C21_ConflictBeforeNetwork ==
    Conflict =>
        /\ net = <<>>
        /\ files = <<>>
        /\ lpc \in {"handleCommand", "output", "done"} => status = "error"

\* C23: in outputIndividual a symbol whose fetch fails is abandoned: no file
\* is written for it, and every remaining symbol is still fetched and written
\* to its own file.
C23_FailedSymbolAbandoned ==
    (~flags.all /\ \E i \in 1..Len(net) : net[i].kind = "quote") =>
        /\ \A i \in 1..Len(net) :
              (net[i].kind = "quote" /\ net[i].failed) =>
                  ~\E j \in 1..Len(files) :
                        files[j].kind = "quote" /\ files[j].at = net[i].at
        /\ lpc = "done" =>
              \A k \in 1..Len(resolved) :
                  \E i \in 1..Len(net) :
                      /\ net[i].kind = "quote"
                      /\ net[i].at = k
                      /\ net[i].of = resolved[k]
                      /\ ~net[i].failed =>
                            \E j \in 1..Len(files) :
                                files[j].kind = "quote" /\ files[j].at = k

\* the log destination is a file path
LogToFile == flags.log \notin {"", "stdout", "stderr", "discard"}

\* C24: after setOutput configured a file path as log destination the sink
\* stays open for the rest of the run and every message a later fetch logs is
\* written to the file; when the file cannot be opened the error is reported
\* and no fetch is started.
C24_LogSinkStaysOpen ==
    (LogToFile /\ lpc # "setOutput") =>
        /\ sink.opened => (lpc # "done" => sink.open)
        /\ sink.opened => \A i \in 1..Len(logs) : logs[i].written
        /\ ~sink.opened => (status = "error" /\ net = <<>> /\ files = <<>>)

====
